---------------------------- MODULE Spec2Model ----------------------------
(***************************************************************************)
(* A model of core/win32/loader.c: the private PE library loader.          *)
(*                                                                         *)
(* The loader's functions are modelled as a stack machine: every frame of  *)
(* stk[t] is one activation of a C function, its pc names the basic block  *)
(* that runs next, and each action below executes one basic block of one   *)
(* function (up to its next call or return).  Release-build semantics:     *)
(* ASSERT / ASSERT_NOT_REACHED / LOG compile to nothing.                   *)
(*                                                                         *)
(* The environment (the files on disk, the PE images in them, what a       *)
(* library's entry point returns) is a "world", fixed at Init.             *)
(***************************************************************************)
EXTENDS Integers, Sequences, FiniteSets, TLC

(***************************************************************************)
(* Bounds of the model.                                                    *)
(***************************************************************************)
\* public load/unload calls made after loader_init
MaxOps == 3
\* address slots available beyond the preferred bases of the known images
MaxExtra == 1
\* load_private_library calls made before the heap is initialised
MaxEarly == 1
\* units in the arena of the host heap, largest request, calls of the
\* heap redirections
HeapCells == 4
MaxReq == 1
MaxHeapOps == 3
\* calls the second thread makes
MaxAppOps == 1
\* calls of redirect_FlsAlloc and private_lib_handle_cb
MaxFlsOps == 2
\* calls of the public API next to the FLS calls
MaxFlsLoads == 2
\* loads before the heap exists where privmod_static is made to run out
MaxBootLoads == 7
\* callbacks on fls_cb_list, and calls of the public API, while the two
\* locks are followed
MaxCallbacks == 2
MaxLockLoads == 1

\* forwarders followed for one import when a slot value is computed
MaxChain == 2

\* #define PRIVMOD_STATIC_NUM 6
PRIVMOD_STATIC_NUM == 6

NULL == 0

\* DllMain reason codes (winnt.h)
DLL_PROCESS_DETACH == 0
DLL_PROCESS_ATTACH == 1
DLL_THREAD_ATTACH == 2
DLL_THREAD_DETACH == 3
HEAP_ZERO_MEMORY == 8
\* sizeof(size_t), the unit in which memory is counted
SizeOfSizeT == 1

(***************************************************************************)
(* Names.  strcasecmp compares after folding case; the only upper-case     *)
(* spellings that occur in the images below are folded here.               *)
(***************************************************************************)
Lower(s) ==
    CASE s = "C.DLL" -> "c.dll"
      [] s = "NTDLL.DLL" -> "ntdll.dll"
      [] OTHER -> s

\* strcasecmp(a, b) == 0
StrCaseEq(a, b) == Lower(a) = Lower(b)

(***************************************************************************)
(* PE images.  An import descriptor names a library and lists its thunks;  *)
(* pages[j] is the page of the IAT that holds thunk j (pages has one more  *)
(* element than slots: the page of the terminating zero thunk).            *)
(***************************************************************************)
ByName(s) == [ord |-> FALSE, sym |-> s]
ByOrdinal == [ord |-> TRUE, sym |-> "#1"]

Imp(n, sl, pg) == [name |-> n, slots |-> sl, pages |-> pg]

Func(s) == [kind |-> "func", sym |-> s, fwd |-> ""]
Forw(f) == [kind |-> "fwd", sym |-> "", fwd |-> f]

\* entry: "none" (no entry point, or entry == base), "ok" (DllMain returns
\* TRUE), "fail" (DllMain returns FALSE for DLL_PROCESS_ATTACH).
\* locked: IAT pages whose protection cannot be changed.
Img(short, imports, exports, entry, size, reloc, locked) ==
    [short |-> short, imports |-> imports, exports |-> exports,
     entry |-> entry, size |-> size, reloc |-> reloc, locked |-> locked]

NoExports == [s \in {} |-> Func(s)]
Exp1(s, e) == [x \in {s} |-> e]
Exp2(s1, e1, s2, e2) == [x \in {s1, s2} |-> IF x = s1 THEN e1 ELSE e2]

ImpNtdll == Imp("ntdll.dll", <<ByName("NtClose")>>, <<1, 1>>)

Images ==
    [n \in {"ntdll", "dynamorio", "user32", "kernel32", "kernelbase", "leaf",
            "a", "b", "c", "x", "y", "x2", "y2", "bad", "ux", "uy", "ord",
            "af", "pf", "client", "fwd", "nr", "d", "w", "z", "zf"} |->
     CASE n = "ntdll" ->
            Img("ntdll.dll", <<>>,
                Exp2("NtClose", Func("NtClose"),
                     "RtlAllocateHeap", Func("RtlAllocateHeap")),
                "none", 2, TRUE, {})
       [] n = "dynamorio" ->
            Img("dynamorio.dll", <<>>, NoExports, "ok", 2, TRUE, {})
       [] n = "user32" ->
            Img("user32.dll", <<>>, NoExports, "ok", 2, TRUE, {})
       [] n = "kernel32" ->
            Img("kernel32.dll", <<ImpNtdll>>,
                Exp2("Sleep", Forw("kernelbase.Sleep"),
                     "FlsAlloc", Func("FlsAlloc")),
                "ok", 2, TRUE, {})
       [] n = "kernelbase" ->
            Img("kernelbase.dll", <<ImpNtdll>>,
                Exp1("Sleep", Func("Sleep")), "ok", 2, TRUE, {})
       [] n = "leaf" ->
            Img("leaf.dll",
                <<Imp("NTDLL.DLL",
                      <<ByName("RtlAllocateHeap"), ByName("NtClose")>>,
                      <<1, 1, 2>>)>>,
                NoExports, "ok", 2, TRUE, {})
       [] n = "a" ->
            Img("a.dll",
                <<Imp("b.dll", <<ByName("fb")>>, <<1, 1>>),
                  Imp("C.DLL", <<ByName("fc")>>, <<1, 1>>)>>,
                NoExports, "ok", 1, TRUE, {})
       [] n = "b" ->
            Img("b.dll", <<Imp("c.dll", <<ByName("fc")>>, <<1, 1>>)>>,
                Exp1("fb", Func("fb")), "ok", 1, TRUE, {})
       [] n = "c" ->
            Img("c.dll", <<ImpNtdll>>, Exp1("fc", Func("fc")),
                "none", 1, TRUE, {})
       [] n = "x" ->
            Img("x.dll", <<Imp("y.dll", <<ByName("fy")>>, <<1, 1>>)>>,
                Exp1("fx", Func("fx")), "ok", 1, TRUE, {})
       [] n = "y" ->
            Img("y.dll", <<Imp("x.dll", <<ByName("fx")>>, <<1, 1>>)>>,
                Exp1("fy", Func("fy")), "ok", 1, TRUE, {})
       [] n = "x2" ->
            Img("x2.dll",
                <<Imp("y2.dll", <<ByName("fy")>>, <<1, 1>>),
                  Imp("nosuch.dll", <<ByName("f")>>, <<1, 1>>)>>,
                Exp1("fx", Func("fx")), "ok", 1, TRUE, {})
       [] n = "y2" ->
            Img("y2.dll", <<Imp("x2.dll", <<ByName("fx")>>, <<1, 1>>)>>,
                Exp1("fy", Func("fy")), "ok", 1, TRUE, {})
       [] n = "bad" ->
            Img("bad.dll",
                <<Imp("c.dll", <<ByName("fc"), ByName("nosuchsym")>>,
                      <<1, 1, 1>>),
                  ImpNtdll>>,
                NoExports, "ok", 1, TRUE, {})
       [] n = "ux" ->
            Img("ux.dll", <<Imp("uy.dll", <<ByName("fy")>>, <<1, 1>>)>>,
                Exp1("fx", Func("fx")), "ok", 1, TRUE, {})
       [] n = "uy" ->
            Img("uy.dll",
                <<Imp("nosuch.dll", <<ByName("f")>>, <<1, 1>>),
                  Imp("ux.dll", <<ByName("fx")>>, <<1, 1>>)>>,
                Exp1("fy", Func("fy")), "ok", 1, TRUE, {})
       [] n = "ord" ->
            Img("ord.dll", <<Imp("c.dll", <<ByOrdinal>>, <<1, 1>>)>>,
                NoExports, "ok", 1, TRUE, {})
       [] n = "af" ->
            Img("af.dll", <<Imp("c.dll", <<ByName("fc")>>, <<1, 1>>)>>,
                Exp1("fa", Func("fa")), "fail", 1, TRUE, {})
       [] n = "pf" ->
            Img("pf.dll",
                <<Imp("c.dll", <<ByName("fc"), ByName("fc")>>, <<1, 2, 2>>)>>,
                NoExports, "ok", 1, TRUE, {2})
       [] n = "client" ->
            Img("client.dll", <<Imp("c.dll", <<ByName("fc")>>, <<1, 1>>)>>,
                NoExports, "ok", 1, TRUE, {})
       [] n = "fwd" ->
            Img("fwd.dll",
                <<Imp("kernel32.dll", <<ByName("Sleep")>>, <<1, 1>>)>>,
                NoExports, "ok", 1, TRUE, {})
       [] n = "nr" ->
            Img("nr.dll", <<>>, NoExports, "ok", 1, FALSE, {})
       [] n = "d" ->
            Img("d.dll", <<Imp("af.dll", <<ByName("fa")>>, <<1, 1>>)>>,
                NoExports, "ok", 1, TRUE, {})
       [] n = "w" ->
            Img("w.dll", <<Imp("z.dll", <<ByName("fz")>>, <<1, 1>>)>>,
                NoExports, "ok", 1, TRUE, {})
       [] n = "z" ->
            Img("z.dll", <<ImpNtdll>>, Exp1("fz", Func("fz")),
                "ok", 1, TRUE, {})
       [] n = "zf" ->
            Img("z.dll", <<ImpNtdll>>, Exp1("fz", Func("fz")),
                "fail", 1, TRUE, {})]

ImageIds == DOMAIN Images


(***************************************************************************)
(* Worlds: the files on disk and what the host asks the loader to load.    *)
(* A path is <<directory, file name>>.  Directory "." is the empty         *)
(* directory part: the file name string is then the bare short name.       *)
(* "cl" is a client-library directory, "sys32" is <systemroot>/system32    *)
(* and "win" is <systemroot>.                                              *)
(***************************************************************************)
File(d, n, img) == [dir |-> d, name |-> n, img |-> img]

World(fs, early, roots, user32) ==
    [fs |-> fs, early |-> early, roots |-> roots, user32 |-> user32]

SysNtdll == File("sys32", "ntdll.dll", "ntdll")

Worlds ==
    << \* 1: a leaf library, by bare name and by full path
       World({File(".", "leaf.dll", "leaf"), File("cl", "leaf.dll", "leaf"),
              SysNtdll},
             {}, {<<".", "leaf.dll">>, <<"cl", "leaf.dll">>}, TRUE),
       \* 2: a dependency shared by two libraries
       World({File(".", "a.dll", "a"), File(".", "b.dll", "b"),
              File("sys32", "b.dll", "b"), File("win", "c.dll", "c"),
              SysNtdll},
             {}, {<<".", "a.dll">>, <<".", "b.dll">>}, FALSE),
       \* 3: an export forwarded to a library nobody imports
       World({File(".", "fwd.dll", "fwd"),
              File(".", "kernelbase.dll", "kernelbase"),
              File("sys32", "kernel32.dll", "kernel32"),
              File("sys32", "kernelbase.dll", "kernelbase"), SysNtdll},
             {}, {<<".", "fwd.dll">>, <<".", "kernelbase.dll">>}, FALSE),
       \* 4: mutually dependent libraries
       World({File(".", "x.dll", "x"), File("sys32", "y.dll", "y"),
              File(".", "x2.dll", "x2"), File("sys32", "y2.dll", "y2"),
              SysNtdll},
             {}, {<<".", "x.dll">>, <<".", "x2.dll">>}, FALSE),
       \* 5: an undefined symbol, an import by ordinal
       World({File(".", "bad.dll", "bad"), File(".", "ord.dll", "ord"),
              File(".", "c.dll", "c"), File("sys32", "c.dll", "c"),
              SysNtdll},
             {}, {<<".", "bad.dll">>, <<".", "ord.dll">>, <<".", "c.dll">>},
             FALSE),
       \* 6: a failing dependency that imports its dependent, a failing
       \*    entry point, an IAT page that cannot be made writable
       World({File(".", "ux.dll", "ux"), File("sys32", "uy.dll", "uy"),
              File(".", "d.dll", "d"), File("win", "af.dll", "af"),
              File(".", "pf.dll", "pf"), File("sys32", "c.dll", "c"),
              SysNtdll},
             {}, {<<".", "ux.dll">>, <<".", "d.dll">>, <<".", "pf.dll">>},
             FALSE),
       \* 7: a client library loaded before the heap exists, an image
       \*    without relocations
       World({File("cl", "client.dll", "client"), File("cl", "c.dll", "c"),
              File(".", "nr.dll", "nr"), File("cl", "nr.dll", "nr"),
              SysNtdll},
             {<<"cl", "client.dll">>},
             {<<".", "nr.dll">>, <<"cl", "nr.dll">>}, FALSE),
       \* 8: a client library loaded before the heap exists whose
       \*    dependency the host unloads and loads again
       World({File("cl", "a.dll", "a"), File("cl", "b.dll", "b"),
              File("cl", "c.dll", "c"), SysNtdll},
             {<<"cl", "a.dll">>}, {<<"cl", "b.dll">>}, FALSE) >>

WorldIds == 1..Len(Worlds)

\* one more world: a file name found in several of the directories searched
\* (c.dll), and one whose first file found fails to load (z.dll)
LocateWorldId == Len(Worlds) + 1

LocateWorld ==
    World({File("cl", "client.dll", "client"), File("cl", "c.dll", "c"),
           File("sys32", "c.dll", "c"), File("win", "c.dll", "c"),
           File(".", "w.dll", "w"), File("sys32", "z.dll", "zf"),
           File("win", "z.dll", "z"), File(".", "z.dll", "z"), SysNtdll},
          {<<"cl", "client.dll">>}, {<<".", "w.dll">>}, FALSE)

\* and one more: more client libraries than privmod_static has records.
\* The host loads them in the order of EarlyOrder.
EarlyWorldId == LocateWorldId + 1

EarlyOrder ==
    << <<"cl", "leaf.dll">>, <<"cl", "c.dll">>, <<"cl", "kernelbase.dll">>,
       <<"cl", "kernel32.dll">>, <<"cl", "z.dll">>, <<"cl", "nr.dll">>,
       <<"cl", "client.dll">>, <<"cl", "leaf.dll">> >>

EarlyWorld ==
    World({File("cl", "leaf.dll", "leaf"), File("cl", "c.dll", "c"),
           File("cl", "kernelbase.dll", "kernelbase"),
           File("cl", "kernel32.dll", "kernel32"), File("cl", "z.dll", "z"),
           File("cl", "nr.dll", "nr"), File("cl", "client.dll", "client"),
           SysNtdll},
          {EarlyOrder[n] : n \in 1..Len(EarlyOrder)}, {}, FALSE)

(***************************************************************************)
(* Address space.  Every image has its own preferred base (slot); MaxExtra *)
(* further slots take the images that cannot get their preferred base.     *)
(***************************************************************************)
SlotSize == 2

ImageSeq ==
    <<"ntdll", "dynamorio", "user32", "kernel32", "kernelbase", "leaf", "a",
      "b", "c", "x", "y", "x2", "y2", "bad", "ux", "uy", "ord", "af", "pf",
      "client", "fwd", "nr", "d", "w", "z", "zf">>

NImages == Len(ImageSeq)

PrefSlot(img) == CHOOSE k \in 1..NImages : ImageSeq[k] = img

BaseOf(slot) == slot * SlotSize

Slots == 1..(NImages + MaxExtra)

ExtraSlots == (NImages + 1)..(NImages + MaxExtra)

Addresses == 0..(BaseOf(NImages + MaxExtra) + SlotSize)

\* an address that is never the base of a module
BogusBase == BaseOf(1) - 1

Threads == {1}

VARIABLES
    world,          \* the environment, fixed at Init
    heap_init,      \* dynamo_heap_initialized
    modlist,        \* the list of privmod_t, front first (bases as pointers)
    mods,           \* the privmod_t records on the heap, by pointer
    modlist_areas,  \* the vm_area_vector_t used by in_private_library
    maps,           \* the private image mappings, by base
    privmod_static, \* privmod_static[0..privmod_static_idx)
    search_paths,   \* search_paths[0..privmod_static_idx)
    systemroot,     \* "" until privload_init_search_paths
    stk,            \* per thread: the call stack
    ret,            \* per thread: the value returned by the last return
    lock,           \* privload_lock: owner and recursion count
    phase,          \* "boot", "init", "run", "exited": where the host is
    crashed,        \* the process died on an invalid memory access
    attached,       \* history: bases whose PROCESS_ATTACH returned TRUE
    loadinfo,       \* history: per record, the dependent it was loaded for
                    \*   and how far its load got
    hist,           \* history: the public calls completed so far
    hblocks,        \* the host heap: the blocks global_heap_alloc handed
                    \*   out, by start address
    hcell,          \* the contents of the host's memory, by address
    nblocks,        \* the OS heaps: the blocks the native Rtl*Heap
                    \*   routines handed out, by address
    hop,            \* history: the last call of a heap redirection
    fls_cb_list,    \* the cb fields of the fls_cb_t nodes, head node first;
                    \*   empty while there is no head node
    fop,            \* history: the last call of redirect_FlsAlloc or
                    \*   private_lib_handle_cb
    dynamo_areas,   \* the addresses add_dynamo_vm_area made the host's
    touch,          \* history: the last use of the registry by a thread
    privload_fls_lock,  \* the mutex of fls_cb_list: its owner, 0 when free
    native          \* per thread: the redirected routines and callbacks
                    \*   that run natively on it, innermost last
                    \*   other than the host's

vars ==
    <<world, heap_init, modlist, mods, modlist_areas, maps, privmod_static,
      search_paths, systemroot, stk, ret, lock, phase, crashed, attached,
      loadinfo, hist, hblocks, hcell, nblocks, hop, fls_cb_list, fop,
      dynamo_areas, touch, privload_fls_lock, native>>

W ==
    IF world = LocateWorldId THEN LocateWorld
    ELSE IF world = EarlyWorldId THEN EarlyWorld
    ELSE Worlds[world]

(***************************************************************************)
(* Files.                                                                  *)
(***************************************************************************)
\* os_file_exists / os_open: file names compare case-insensitively
FilesAt(d, n) == {f \in W.fs : f.dir = d /\ Lower(f.name) = Lower(n)}

FileExists(d, n) == FilesAt(d, n) # {}

FileImg(d, n) == (CHOOSE f \in FilesAt(d, n) : TRUE).img

(***************************************************************************)
(* Images in memory.  The externally loaded modules are images the OS      *)
(* mapped at their preferred base; they are not in maps.                   *)
(***************************************************************************)
NtdllBase == BaseOf(PrefSlot("ntdll"))
DrBase == BaseOf(PrefSlot("dynamorio"))
User32Base == BaseOf(PrefSlot("user32"))

OsBases == {NtdllBase, DrBase} \cup (IF W.user32 THEN {User32Base} ELSE {})

OsImg(b) ==
    CASE b = NtdllBase -> "ntdll"
      [] b = DrBase -> "dynamorio"
      [] OTHER -> "user32"

Readable(b) == b \in DOMAIN maps \/ b \in OsBases

ImgAt(b) == Images[IF b \in DOMAIN maps THEN maps[b].img ELSE OsImg(b)]

FreeSlot(s) == BaseOf(s) \notin DOMAIN maps /\ BaseOf(s) \notin OsBases

\* where the kernel maps image img: at its preferred base when that is free,
\* else in any free slot
MapSlots(img) ==
    IF FreeSlot(PrefSlot(img)) THEN {PrefSlot(img)}
    ELSE {s \in ExtraSlots : FreeSlot(s)}

PagesOf(img) ==
    UNION {{Images[img].imports[i].pages[j] :
              j \in 1..Len(Images[img].imports[i].pages)} :
           i \in 1..Len(Images[img].imports)}

NoFunc == [b |-> NULL, img |-> "", sym |-> ""]

ThunkIds(img) ==
    UNION {{<<i, j>> : j \in 1..Len(Images[img].imports[i].slots)} :
           i \in 1..Len(Images[img].imports)}

\* a fresh SEC_IMAGE view: blank IAT, IAT pages read-only
FreshMap(img) ==
    [img |-> img, size |-> Images[img].size,
     iat |-> [ij \in ThunkIds(img) |-> NoFunc],
     prot |-> [p \in PagesOf(img) |-> "R"]]


(***************************************************************************)
(* The module list and the heap records.  A privmod_t pointer is modelled  *)
(* by the base of the module it describes; a pointer to a freed record is  *)
(* the negated base.                                                       *)
(***************************************************************************)
Put(f, k, v) == [x \in DOMAIN f \cup {k} |-> IF x = k THEN v ELSE f[x]]

Del(f, k) == [x \in DOMAIN f \ {k} |-> f[x]]

\* fault injection: a record that starts with no reference
PrivMod_unreferenced(base, size, name) ==
    [base |-> base, size |-> size, name |-> name, ref_count |-> 0,
     externally_loaded |-> FALSE]

\* the record privload_insert fills in
PrivMod(base, size, name) ==
    [base |-> base, size |-> size, name |-> name, ref_count |-> 1,
     externally_loaded |-> FALSE]

IndexOf(list, m) == CHOOSE k \in 1..Len(list) : list[k] = m

InList(list, m) == \E k \in 1..Len(list) : list[k] = m

\* the filename string of a path equals a short name (up to case) only when
\* it has no directory part
PathMatches(path, name) == path[1] = "." /\ StrCaseEq(path[2], name)

FirstMatch(list, path) ==
    LET hits == {k \in 1..Len(list) : PathMatches(path, mods[list[k]].name)}
    IN  IF hits = {} THEN NULL
        ELSE list[CHOOSE k \in hits : \A h \in hits : k <= h]

\* privload_lookup(name): the first record of the list with that name
privload_lookup(path) == FirstMatch(modlist, path)

\* fault injection: a lookup that falls back on the front record
privload_lookup_by_base_front(modbase) ==
    LET hits == {k \in 1..Len(modlist) : mods[modlist[k]].base = modbase}
    IN  IF hits = {} THEN (IF modlist = <<>> THEN NULL ELSE modlist[1])
        ELSE modlist[CHOOSE k \in hits : \A h \in hits : k <= h]

\* privload_lookup_by_base(modbase)
privload_lookup_by_base(modbase) ==
    LET hits == {k \in 1..Len(modlist) : mods[modlist[k]].base = modbase}
    IN  IF hits = {} THEN NULL
        ELSE modlist[CHOOSE k \in hits : \A h \in hits : k <= h]

\* fault injection: an insert that always puts the new record at the front
ListInsert_front(list, after, m) == <<m>> \o list

\* the list part of privload_insert: at the front when after == NULL, else
\* immediately behind after
ListInsert(list, after, m) ==
    IF after = NULL THEN <<m>> \o list
    ELSE LET k == IndexOf(list, after)
         IN  SubSeq(list, 1, k) \o <<m>> \o SubSeq(list, k + 1, Len(list))

\* the unlinking done by privload_unload
ListRemove(list, m) ==
    LET k == IndexOf(list, m)
    IN  SubSeq(list, 1, k - 1) \o SubSeq(list, k + 1, Len(list))

\* vmvector_add(modlist_areas, start, end, data)
vmvector_add(v, start, end, data) ==
    v \cup {[start |-> start, end |-> end, data |-> data]}

\* fault injection: a vmvector_remove that leaves the vector as it is
vmvector_remove_none(v, start, end) == v

\* vmvector_remove(modlist_areas, start, end): drops what overlaps
vmvector_remove(v, start, end) ==
    {a \in v : ~(a.start < end /\ start < a.end)}

\* vmvector_overlap(modlist_areas, start, end)
vmvector_overlap(v, start, end) ==
    \E a \in v : a.start < end /\ start < a.end

\* in_private_library(pc)
in_private_library(pc) == vmvector_overlap(modlist_areas, pc, pc + 1)

(***************************************************************************)
(* PE helpers.                                                             *)
(***************************************************************************)
\* get_proc_address_ex(base, name, &forwarder): the function, or NULL and
\* the forwarder string, or NULL and NULL
ExportOf(base, name) ==
    LET ex == ImgAt(base).exports
    IN  IF name \in DOMAIN ex THEN ex[name] ELSE [kind |-> "", sym |-> "", fwd |-> ""]

get_proc_address_ex(base, name) ==
    LET e == ExportOf(base, name)
    IN  [func |-> IF e.kind = "func"
                  THEN [b |-> base,
                        img |-> IF base \in DOMAIN maps THEN maps[base].img
                                ELSE OsImg(base),
                        sym |-> e.sym]
                  ELSE NoFunc,
         fwd |-> IF e.kind = "fwd" THEN e.fwd ELSE ""]

\* strchr(forwarder, '.') + 1
ForwFunc(fwd) ==
    CASE fwd = "kernelbase.Sleep" -> "Sleep"
      [] OTHER -> ""

\* forwmodpath: the text before the '.', then ".dll"
ForwModPath(fwd) ==
    CASE fwd = "kernelbase.Sleep" -> "kernelbase.dll"
      [] OTHER -> ""

\* redirect_ntdll[] and redirect_kernel32[]
RedirectNtdll ==
    {"LdrSetDllManifestProber", "RtlSetThreadPoolStartFunc",
     "RtlSetUnhandledExceptionFilter", "RtlAllocateHeap",
     "RtlReAllocateHeap", "RtlFreeHeap", "RtlSizeHeap",
     "RtlFreeUnicodeString", "RtlFreeAnsiString", "RtlFreeOemString"}

RedirectKernel32 == {"FlsAlloc", "GetModuleHandleA", "GetProcAddress"}

Redirected(sym) == [b |-> NULL, img |-> "redirect", sym |-> sym]

\* the entry of a redirection table whose name is sym up to case, or ""
TableEntry(table, sym) ==
    IF \E r \in table : StrCaseEq(sym, r)
    THEN CHOOSE r \in table : StrCaseEq(sym, r)
    ELSE ""

\* fault injection: no import is ever redirected
privload_redirect_imports_none(modname, sym) == NoFunc

\* privload_redirect_imports(impmod, name): the replacement, or NULL
privload_redirect_imports(modname, sym) ==
    IF StrCaseEq(modname, "ntdll.dll")
    THEN IF TableEntry(RedirectNtdll, sym) # ""
         THEN Redirected(TableEntry(RedirectNtdll, sym)) ELSE NoFunc
    ELSE IF StrCaseEq(modname, "kernel32.dll")
         THEN IF TableEntry(RedirectKernel32, sym) # ""
              THEN Redirected(TableEntry(RedirectKernel32, sym)) ELSE NoFunc
         ELSE NoFunc

(***************************************************************************)
(* Frames.                                                                 *)
(***************************************************************************)
NoPath == <<"", "">>

Frame(fn, pc) ==
    [fn |-> fn, pc |-> pc, mod |-> NULL, dep |-> NULL, path |-> NoPath,
     name |-> "", i |-> 0, j |-> 0, k |-> 0, imp |-> NULL, fmod |-> NULL,
     ffunc |-> "", func |-> NoFunc, fwd |-> "", iat |-> 0, oprot |-> "",
     reason |-> 0, base |-> NULL]

Top(t) == stk[t][Len(stk[t])]

At(t, fn, pc) ==
    /\ ~crashed
    /\ stk[t] # <<>>
    /\ Top(t).fn = fn
    /\ Top(t).pc = pc

SetTop(s, f) == [s EXCEPT ![Len(s)] = f]

Pop(s) == SubSeq(s, 1, Len(s) - 1)

\* a pointer to the record freed at base b becomes dangling
Tomb(b, p) == IF p = b THEN -b ELSE p

TombFrame(b, f) ==
    [f EXCEPT !.mod = Tomb(b, @), !.dep = Tomb(b, @), !.imp = Tomb(b, @),
              !.fmod = Tomb(b, @)]

TombStack(b, s) == [k \in 1..Len(s) |-> TombFrame(b, s[k])]

RetP(p) == [b |-> p # NULL, p |-> p]
RetB(v) == [b |-> v, p |-> NULL]

\* continue in the same function
Goto(t, f) == /\ stk' = [stk EXCEPT ![t] = SetTop(@, f)]
              /\ UNCHANGED ret

\* call g; the caller continues at f when g returns
Call(t, f, g) == /\ stk' = [stk EXCEPT ![t] = Append(SetTop(@, f), g)]
                 /\ UNCHANGED ret

Return(t, v) == /\ stk' = [stk EXCEPT ![t] = Pop(@)]
                /\ ret' = [ret EXCEPT ![t] = v]

Snapshot ==
    [modlist |-> modlist, mods |-> mods, areas |-> modlist_areas,
     maps |-> [b \in DOMAIN maps |-> maps[b].img]]


(***************************************************************************)
(* The recursive lock.                                                     *)
(***************************************************************************)
CanAcquire(t) == lock.owner \in {0, t}

Acquired(t) == [owner |-> t, cnt |-> lock.cnt + 1]

Released == IF lock.cnt = 1 THEN [owner |-> 0, cnt |-> 0]
            ELSE [lock EXCEPT !.cnt = @ - 1]

(***************************************************************************)
(* History of the public calls: one entry per call, completed on return.   *)
(***************************************************************************)
HistCall(op, path, base) ==
    [op |-> op, path |-> path, base |-> base, done |-> FALSE,
     boot |-> ~heap_init, res |-> NULL, ok |-> FALSE, pre |-> Snapshot,
     root |-> NULL, bindfail |-> FALSE, calls |-> <<>>]

HistBegin(op, path, base) == hist' = Append(hist, HistCall(op, path, base))

HistEnd(res, ok) ==
    hist' = [hist EXCEPT ![Len(hist)] =
                [@ EXCEPT !.done = TRUE, !.res = res, !.ok = ok]]

\* the call in progress mapped its library at base b
HistRoot(b) == [hist EXCEPT ![Len(hist)].root = b]

\* the call in progress invoked the entry point of the module at base
\* with reason, and the entry point returned res
HistEntry(base, reason, res) ==
    [hist EXCEPT ![Len(hist)].calls =
        Append(@, [base |-> base, reason |-> reason, res |-> res,
                   name |-> mods[base].name,
                   imports |-> {Lower(ImgAt(base).imports[i].name) :
                                   i \in 1..Len(ImgAt(base).imports)},
                   ext |-> mods[base].externally_loaded,
                   att |-> base \in attached,
                   mapped |-> DOMAIN maps])]

\* the call in progress failed to bind the imports of its library
HistBindFail == [hist EXCEPT ![Len(hist)].bindfail = TRUE]

InPublicLoad(t) == stk[t][1].fn = "load_private_library"

\* a record is created on behalf of dependent dep; held counts the
\* load_private_library calls that returned it and were not given back
Loading(dep) ==
    [dep |-> dep, st |-> "loading", held |-> IF dep = NULL THEN 1 ELSE 0]

\* load_private_library returns the record m once more
Held(li, m) ==
    IF m \in DOMAIN li THEN [li EXCEPT ![m].held = @ + 1] ELSE li

\* unload_private_library gives the record m back
GivenBack(li, m) ==
    IF m \in DOMAIN li /\ li[m].held > 0
    THEN [li EXCEPT ![m].held = @ - 1] ELSE li

\* privload_load_finalize(m) is over: "loaded" or "failed"
Finished(li, m, st) ==
    IF m \in DOMAIN li
    THEN [li EXCEPT ![m].st = st,
                    ![m].held = IF st = "failed" THEN 0 ELSE @]
    ELSE li

\* the record m is freed: nothing was loaded for it any more
Forget(li, m) ==
    [x \in DOMAIN li \ {m} |->
        IF li[x].dep = m THEN [li[x] EXCEPT !.dep = NULL] ELSE li[x]]

Idle == \A t \in Threads : stk[t] = <<>>

RunOps == Len(SelectSeq(hist, LAMBDA h : ~h.boot))

UNCH_loader ==
    UNCHANGED <<heap_init, modlist, mods, modlist_areas, maps,
                privmod_static, search_paths, systemroot, attached,
                loadinfo>>

UNCH_redirect ==
    UNCHANGED <<hblocks, hcell, nblocks, hop, fls_cb_list, fop,
                dynamo_areas, touch, privload_fls_lock, native>>

UNCH_env == UNCHANGED <<world, phase, crashed>> /\ UNCH_redirect

(***************************************************************************)
(* load_private_library(filename)                                          *)
(***************************************************************************)
\* the loads before the heap exists that are explored: the host loads each
\* of its client libraries once, in EarlyWorld in the order of EarlyOrder
BootLoads == IF world = EarlyWorldId THEN MaxBootLoads ELSE MaxEarly

LoadPaths ==
    IF phase # "boot" THEN W.roots
    ELSE IF world = EarlyWorldId
         THEN {EarlyOrder[n] : n \in {Len(hist) + 1} \cap 1..Len(EarlyOrder)}
         ELSE {p \in W.early : \A k \in 1..Len(hist) : hist[k].path # p}

CallLoad(t, path) ==
    /\ ~crashed /\ stk[t] = <<>>
    /\ IF phase = "boot" THEN Len(hist) < BootLoads
       ELSE phase = "run" /\ RunOps < MaxOps
    /\ path \in LoadPaths
    /\ stk' = [stk EXCEPT ![t] =
                  <<[Frame("load_private_library", "lock") EXCEPT !.path = path]>>]
    /\ HistBegin("load", path, NULL)
    /\ UNCHANGED <<ret, lock>>
    /\ UNCH_loader /\ UNCH_env

\* acquire the lock, look the name up, load it when it is not found
Load_lock(t) ==
    /\ At(t, "load_private_library", "lock")
    /\ CanAcquire(t)
    /\ lock' = Acquired(t)
    /\ LET f == Top(t)
           privmod == privload_lookup(f.path)
       IN  IF privmod = NULL
           THEN /\ Call(t, [f EXCEPT !.pc = "loaded"],
                        [Frame("privload_load", "start") EXCEPT
                            !.path = f.path, !.dep = NULL])
                /\ UNCHANGED loadinfo
           ELSE /\ Goto(t, [f EXCEPT !.pc = "unlock", !.mod = privmod])
                /\ loadinfo' = Held(loadinfo, privmod)
    /\ UNCHANGED <<heap_init, modlist, mods, modlist_areas, maps,
                   privmod_static, search_paths, systemroot, attached,
                   hist>>
    /\ UNCH_env

Load_loaded(t) ==
    /\ At(t, "load_private_library", "loaded")
    /\ Goto(t, [Top(t) EXCEPT !.pc = "unlock", !.mod = ret[t].p])
    /\ UNCHANGED <<lock, hist>>
    /\ UNCH_loader /\ UNCH_env

\* res = privmod->base (a pointer is modelled by that base); release; return
Load_unlock(t) ==
    /\ At(t, "load_private_library", "unlock")
    /\ lock' = Released
    /\ Return(t, RetP(Top(t).mod))
    /\ HistEnd(Top(t).mod, Top(t).mod # NULL)
    /\ UNCH_loader /\ UNCH_env

(***************************************************************************)
(* unload_private_library(modbase)                                         *)
(***************************************************************************)
\* what the host may pass: a base it was given, a base of a private module,
\* or an address that is no module's base
UnloadBases ==
    {hist[k].res : k \in {n \in 1..Len(hist) : hist[n].ok}}
    \cup {b \in DOMAIN mods : ~mods[b].externally_loaded}
    \cup {BogusBase}

CallUnload(t, base) ==
    /\ ~crashed /\ stk[t] = <<>>
    /\ phase = "run" /\ RunOps < MaxOps
    /\ base \in UnloadBases
    /\ stk' = [stk EXCEPT ![t] =
                  <<[Frame("unload_private_library", "lock") EXCEPT !.base = base]>>]
    /\ HistBegin("unload", NoPath, base)
    /\ UNCHANGED <<ret, lock>>
    /\ UNCH_loader /\ UNCH_env

Unload_lock(t) ==
    /\ At(t, "unload_private_library", "lock")
    /\ CanAcquire(t)
    /\ lock' = Acquired(t)
    /\ LET f == Top(t)
           mod == privload_lookup_by_base(f.base)
       IN  IF mod # NULL
           THEN /\ Call(t, [f EXCEPT !.pc = "unlock"],
                        [Frame("privload_unload", "start") EXCEPT
                            !.mod = mod])
                /\ loadinfo' = GivenBack(loadinfo, mod)
           ELSE /\ stk' = [stk EXCEPT ![t] = SetTop(@, [f EXCEPT !.pc = "unlock"])]
                /\ ret' = [ret EXCEPT ![t] = RetB(FALSE)]
                /\ UNCHANGED loadinfo
    /\ UNCHANGED <<heap_init, modlist, mods, modlist_areas, maps,
                   privmod_static, search_paths, systemroot, attached,
                   hist>>
    /\ UNCH_env

Unload_unlock(t) ==
    /\ At(t, "unload_private_library", "unlock")
    /\ lock' = Released
    /\ Return(t, RetB(ret[t].b))
    /\ HistEnd(NULL, ret[t].b)
    /\ UNCH_loader /\ UNCH_env


(***************************************************************************)
(* privload_load(filename, dependent), with privload_map_and_relocate and  *)
(* privload_insert                                                         *)
(***************************************************************************)
\* the directory part of a client library path, kept for later searches
\* (none when the name has no directory separator)
SearchPathOf(path) == IF path[1] = "." THEN "" ELSE path[1]

\* privload_map_and_relocate fails: the file cannot be opened, no view can
\* be mapped, or the view is not at the preferred base of an image without
\* relocations (the view is then unmapped again)
MapFails(path, slot) ==
    \/ ~FileExists(path[1], path[2])
    \/ slot = 0
    \/ slot # PrefSlot(FileImg(path[1], path[2]))
         /\ ~Images[FileImg(path[1], path[2])].reloc

MapChoices(path) ==
    IF ~FileExists(path[1], path[2]) THEN {0}
    ELSE IF MapSlots(FileImg(path[1], path[2])) = {} THEN {0}
         ELSE MapSlots(FileImg(path[1], path[2]))

PrivLoad_start(t) ==
    /\ At(t, "privload_load", "start")
    /\ Top(t).dep >= 0
    /\ \E slot \in MapChoices(Top(t).path) :
        LET f == Top(t)
            img == FileImg(f.path[1], f.path[2])
            b == BaseOf(slot)
            rec == PrivMod(b, Images[img].size, Images[img].short)
        IN  IF MapFails(f.path, slot)
            THEN /\ Return(t, RetP(NULL))
                 /\ UNCHANGED <<modlist, mods, maps, privmod_static,
                                search_paths, loadinfo, hist, crashed>>
            ELSE IF ~heap_init
                 THEN \* no heap yet: the record comes from privmod_static
                      \* and is not linked; finalize waits for loader_init
                      /\ maps' = Put(maps, b, FreshMap(img))
                      /\ IF Len(privmod_static) >= PRIVMOD_STATIC_NUM
                         THEN \* the directory is written to
                              \* search_paths[privmod_static_idx], past the
                              \* end of the array: whatever lies there is
                              \* overwritten; then privload_insert returns
                              \* NULL
                              /\ Return(t, RetP(NULL))
                              /\ UNCHANGED <<privmod_static, search_paths>>
                              /\ IF f.path[1] # "."
                                 THEN crashed' \in BOOLEAN
                                 ELSE UNCHANGED crashed
                         ELSE /\ Return(t, RetP(b))
                              /\ UNCHANGED crashed
                              /\ privmod_static' = Append(privmod_static, rec)
                              /\ search_paths' =
                                    IF Len(search_paths) = Len(privmod_static)
                                    THEN Append(search_paths,
                                                SearchPathOf(f.path))
                                    ELSE [search_paths EXCEPT
                                             ![Len(privmod_static) + 1] =
                                                 SearchPathOf(f.path)]
                      /\ hist' = HistRoot(b)
                      /\ UNCHANGED <<modlist, mods, loadinfo>>
                 ELSE /\ maps' = Put(maps, b, FreshMap(img))
                      /\ mods' = Put(mods, b, rec)
                      /\ modlist' = ListInsert(modlist, f.dep, b)
                      /\ Call(t, [f EXCEPT !.pc = "fin", !.mod = b],
                              [Frame("privload_load_finalize", "start") EXCEPT
                                  !.mod = b])
                      /\ loadinfo' = Put(loadinfo, b, Loading(f.dep))
                      /\ hist' = IF f.dep = NULL /\ InPublicLoad(t)
                                 THEN HistRoot(b) ELSE hist
                      /\ UNCHANGED <<privmod_static, search_paths, crashed>>
    /\ UNCHANGED <<heap_init, modlist_areas, systemroot, attached, lock>>
    /\ UNCHANGED <<world, phase>> /\ UNCH_redirect

PrivLoad_fin(t) ==
    /\ At(t, "privload_load", "fin")
    /\ Return(t, IF ret[t].b THEN RetP(Top(t).mod) ELSE RetP(NULL))
    /\ UNCHANGED <<lock, hist>>
    /\ UNCH_loader /\ UNCH_env

(***************************************************************************)
(* privload_load_finalize(privmod)                                         *)
(***************************************************************************)
\* fault injection: the module is left out of the address-range index
FinalizeAreas_none(areas, m) == areas

\* vmvector_add(modlist_areas, base, base + size, mod) of privload_load_finalize
FinalizeAreas(areas, m) ==
    IF ~m.externally_loaded
    THEN vmvector_add(areas, m.base, m.base + m.size, m.base)
    ELSE areas

Finalize_start(t) ==
    /\ At(t, "privload_load_finalize", "start")
    /\ LET f == Top(t)
       IN  /\ modlist_areas' = FinalizeAreas(modlist_areas, mods[f.mod])
           /\ Call(t, [f EXCEPT !.pc = "imports"],
                   [Frame("privload_process_imports", "start") EXCEPT
                       !.mod = f.mod])
    /\ UNCHANGED <<heap_init, modlist, mods, maps, privmod_static,
                   search_paths, systemroot, attached, loadinfo, lock,
                   hist>>
    /\ UNCH_env

Finalize_imports(t) ==
    /\ At(t, "privload_load_finalize", "imports")
    /\ LET f == Top(t)
       IN  IF ~ret[t].b
           THEN /\ Call(t, [f EXCEPT !.pc = "fail"],
                        [Frame("privload_unload", "start") EXCEPT !.mod = f.mod])
                /\ hist' = IF InPublicLoad(t) /\ Len(stk[t]) = 3
                           THEN HistBindFail ELSE hist
           ELSE /\ Call(t, [f EXCEPT !.pc = "attached"],
                        [Frame("privload_call_entry", "start") EXCEPT
                            !.mod = f.mod, !.reason = DLL_PROCESS_ATTACH])
                /\ UNCHANGED hist
    /\ UNCHANGED lock
    /\ UNCH_loader /\ UNCH_env

\* fault injection: the result of the entry point is ignored
Finalize_attached_ignored(t) ==
    /\ At(t, "privload_load_finalize", "attached")
    /\ Return(t, RetB(TRUE))
    /\ loadinfo' = Finished(loadinfo, Top(t).mod, "loaded")
    /\ UNCHANGED <<heap_init, modlist, mods, modlist_areas, maps,
                   privmod_static, search_paths, systemroot, attached, lock,
                   hist>>
    /\ UNCH_env

Finalize_attached(t) ==
    /\ At(t, "privload_load_finalize", "attached")
    /\ LET f == Top(t)
       IN  IF ~ret[t].b
           THEN /\ Call(t, [f EXCEPT !.pc = "fail"],
                        [Frame("privload_unload", "start") EXCEPT !.mod = f.mod])
                /\ UNCHANGED loadinfo
           ELSE /\ Return(t, RetB(TRUE))
                /\ loadinfo' = Finished(loadinfo, f.mod, "loaded")
    /\ UNCHANGED <<heap_init, modlist, mods, modlist_areas, maps,
                   privmod_static, search_paths, systemroot, attached, lock,
                   hist>>
    /\ UNCH_env

Finalize_fail(t) ==
    /\ At(t, "privload_load_finalize", "fail")
    /\ Return(t, RetB(FALSE))
    /\ loadinfo' = Finished(loadinfo, Top(t).mod, "failed")
    /\ UNCHANGED <<heap_init, modlist, mods, modlist_areas, maps,
                   privmod_static, search_paths, systemroot, attached, lock,
                   hist>>
    /\ UNCH_env

(***************************************************************************)
(* privload_call_entry(privmod, reason)                                    *)
(***************************************************************************)
\* entry != NULL && entry != privmod->base
HasEntry(base) == ImgAt(base).entry # "none"

\* what DllMain returns
EntryResult(base, reason) ==
    IF reason = DLL_PROCESS_ATTACH THEN ImgAt(base).entry = "ok" ELSE TRUE

CallEntry_start(t) ==
    /\ At(t, "privload_call_entry", "start")
    /\ Top(t).mod > 0 /\ Readable(Top(t).mod)
    /\ IF HasEntry(Top(t).mod)
       THEN Goto(t, [Top(t) EXCEPT !.pc = "call"])
       ELSE Return(t, RetB(TRUE))
    /\ UNCHANGED <<lock, hist>>
    /\ UNCH_loader /\ UNCH_env

\* (*func)((HANDLE)privmod->base, reason, NULL)
CallEntry_call(t) ==
    /\ At(t, "privload_call_entry", "call")
    /\ LET f == Top(t)
           res == EntryResult(f.mod, f.reason)
       IN  /\ Return(t, RetB(res))
           /\ hist' = HistEntry(f.mod, f.reason, res)
           /\ attached' = IF f.reason = DLL_PROCESS_ATTACH /\ res
                          THEN attached \cup {f.mod}
                          ELSE attached
    /\ UNCHANGED <<heap_init, modlist, mods, modlist_areas, maps,
                   privmod_static, search_paths, systemroot, loadinfo, lock>>
    /\ UNCH_env


(***************************************************************************)
(* privload_process_imports(mod)                                           *)
(***************************************************************************)
ImportsOf(base) == ImgAt(base).imports

\* protect_virtual_memory(page, PAGE_SIZE, prot, &old) succeeds
ProtectOk(base, page) == page \notin ImgAt(base).locked

SetProt(m, base, page, prot) == [m EXCEPT ![base].prot[page] = prot]

ProcImports_start(t) ==
    /\ At(t, "privload_process_imports", "start")
    /\ IF Len(ImportsOf(Top(t).mod)) = 0
       THEN Return(t, RetB(TRUE))
       ELSE Goto(t, [Top(t) EXCEPT !.pc = "desc", !.i = 1])
    /\ UNCHANGED <<lock, hist>>
    /\ UNCH_loader /\ UNCH_env

\* one descriptor: find the library it names, or load it
ProcImports_desc(t) ==
    /\ At(t, "privload_process_imports", "desc")
    /\ Top(t).mod > 0 /\ Readable(Top(t).mod)
    /\ LET f == Top(t)
           imports == ImportsOf(f.mod)
           impname == imports[f.i].name
           impmod == privload_lookup(<<".", impname>>)
       IN  IF f.i > Len(imports)
           THEN Return(t, RetB(TRUE)) /\ UNCHANGED mods
           ELSE IF impmod = NULL
                THEN /\ Call(t, [f EXCEPT !.pc = "located"],
                             [Frame("privload_locate_and_load", "start") EXCEPT
                                 !.name = impname, !.dep = f.mod, !.k = 1])
                     /\ UNCHANGED mods
                ELSE /\ mods' = [mods EXCEPT ![impmod].ref_count = @ + 1]
                     /\ Goto(t, [f EXCEPT !.pc = "protect", !.imp = impmod])
    /\ UNCHANGED <<heap_init, modlist, modlist_areas, maps, privmod_static,
                   search_paths, systemroot, attached, loadinfo, lock,
                   hist>>
    /\ UNCH_env

ProcImports_located(t) ==
    /\ At(t, "privload_process_imports", "located")
    /\ IF ret[t].p = NULL
       THEN Return(t, RetB(FALSE))
       ELSE Goto(t, [Top(t) EXCEPT !.pc = "protect", !.imp = ret[t].p])
    /\ UNCHANGED <<lock, hist>>
    /\ UNCH_loader /\ UNCH_env

\* make the first page of this descriptor's IAT writable
ProcImports_protect(t) ==
    /\ At(t, "privload_process_imports", "protect")
    /\ Top(t).mod > 0 /\ Readable(Top(t).mod)
    /\ LET f == Top(t)
           page == ImportsOf(f.mod)[f.i].pages[1]
       IN  IF ~ProtectOk(f.mod, page)
           THEN Return(t, RetB(FALSE)) /\ UNCHANGED maps
           ELSE /\ maps' = SetProt(maps, f.mod, page, "RW")
                /\ Goto(t, [f EXCEPT !.pc = "thunk", !.j = 1, !.iat = page,
                                     !.oprot = maps[f.mod].prot[page]])
    /\ UNCHANGED <<heap_init, modlist, mods, modlist_areas, privmod_static,
                   search_paths, systemroot, attached, loadinfo, lock,
                   hist>>
    /\ UNCH_env

\* the head of the thunk loop; after the last thunk the page is restored
ProcImports_thunk(t) ==
    /\ At(t, "privload_process_imports", "thunk")
    /\ Top(t).mod > 0 /\ Readable(Top(t).mod)
    /\ LET f == Top(t)
           desc == ImportsOf(f.mod)[f.i]
       IN  IF f.j <= Len(desc.slots)
           THEN /\ Call(t, [f EXCEPT !.pc = "bound"],
                        [Frame("privload_process_one_import", "start") EXCEPT
                            !.mod = f.mod, !.imp = f.imp, !.i = f.i, !.j = f.j])
                /\ UNCHANGED maps
           ELSE IF ~ProtectOk(f.mod, f.iat)
                THEN Return(t, RetB(FALSE)) /\ UNCHANGED maps
                ELSE /\ maps' = SetProt(maps, f.mod, f.iat, f.oprot)
                     /\ Goto(t, [f EXCEPT !.pc = "desc", !.i = f.i + 1])
    /\ UNCHANGED <<heap_init, modlist, mods, modlist_areas, privmod_static,
                   search_paths, systemroot, attached, loadinfo, lock,
                   hist>>
    /\ UNCH_env

\* after one thunk: step to the next, moving the writable window when the
\* next thunk lies on another page
ProcImports_bound(t) ==
    /\ At(t, "privload_process_imports", "bound")
    /\ LET f == Top(t)
           next == ImportsOf(f.mod)[f.i].pages[f.j + 1]
       IN  IF ~ret[t].b
           THEN Return(t, RetB(FALSE)) /\ UNCHANGED maps
           ELSE IF next = f.iat
                THEN Goto(t, [f EXCEPT !.pc = "thunk", !.j = f.j + 1])
                     /\ UNCHANGED maps
                ELSE IF ~ProtectOk(f.mod, f.iat)
                     THEN Return(t, RetB(FALSE)) /\ UNCHANGED maps
                     ELSE IF ~ProtectOk(f.mod, next)
                          THEN /\ maps' = SetProt(maps, f.mod, f.iat, f.oprot)
                               /\ Return(t, RetB(FALSE))
                          ELSE /\ maps' = SetProt(SetProt(maps, f.mod, f.iat, f.oprot),
                                                  f.mod, next, "RW")
                               /\ Goto(t, [f EXCEPT !.pc = "thunk", !.j = f.j + 1,
                                                    !.iat = next,
                                                    !.oprot = maps[f.mod].prot[next]])
    /\ UNCHANGED <<heap_init, modlist, mods, modlist_areas, privmod_static,
                   search_paths, systemroot, attached, loadinfo, lock,
                   hist>>
    /\ UNCH_env

(***************************************************************************)
(* privload_process_one_import(mod, impmod, lookup, address)               *)
(***************************************************************************)
\* *address = dst
WriteIat(m, base, i, j, dst) == [m EXCEPT ![base].iat[<<i, j>>] = dst]

OneImport_start(t) ==
    /\ At(t, "privload_process_one_import", "start")
    /\ Top(t).mod > 0 /\ Readable(Top(t).mod)
    /\ LET f == Top(t)
           thunk == ImportsOf(f.mod)[f.i].slots[f.j]
           r == get_proc_address_ex(f.imp, thunk.sym)
       IN  IF thunk.ord
           THEN \* TEST(IMAGE_ORDINAL_FLAG, ...): nothing is done
                Return(t, RetB(TRUE))
           ELSE Goto(t, [f EXCEPT !.pc = "resolve", !.func = r.func,
                                  !.fwd = r.fwd, !.fmod = f.imp,
                                  !.ffunc = thunk.sym])
    /\ UNCHANGED <<lock, hist>>
    /\ UNCH_loader /\ UNCH_env

\* the forwarder loop, and the write into the IAT that follows it
OneImport_resolve(t) ==
    /\ At(t, "privload_process_one_import", "resolve")
    /\ LET f == Top(t)
           redir == privload_redirect_imports(mods[f.fmod].name, f.ffunc)
           forwmodpath == ForwModPath(f.fwd)
           forwfunc == ForwFunc(f.fwd)
           forwmod == privload_lookup(<<".", forwmodpath>>)
           r == get_proc_address_ex(forwmod, forwfunc)
       IN  IF f.func # NoFunc
           THEN /\ maps[f.mod].prot[ImportsOf(f.mod)[f.i].pages[f.j]] = "RW"
                /\ maps' = WriteIat(maps, f.mod, f.i, f.j,
                                    IF redir # NoFunc THEN redir ELSE f.func)
                /\ Return(t, RetB(TRUE))
           ELSE IF f.fwd = ""
                THEN Return(t, RetB(FALSE)) /\ UNCHANGED maps
                ELSE IF forwmod = NULL
                     THEN /\ Call(t, [f EXCEPT !.pc = "forwloaded",
                                               !.ffunc = forwfunc],
                                  [Frame("privload_locate_and_load", "start") EXCEPT
                                      !.name = forwmodpath, !.dep = f.mod, !.k = 1])
                          /\ UNCHANGED maps
                     ELSE /\ Goto(t, [f EXCEPT !.fmod = forwmod, !.ffunc = forwfunc,
                                               !.func = r.func, !.fwd = r.fwd])
                          /\ UNCHANGED maps
    /\ UNCHANGED <<heap_init, modlist, mods, modlist_areas, privmod_static,
                   search_paths, systemroot, attached, loadinfo, lock,
                   hist>>
    /\ UNCH_env

OneImport_forwloaded(t) ==
    /\ At(t, "privload_process_one_import", "forwloaded")
    /\ LET f == Top(t)
           r == get_proc_address_ex(ret[t].p, f.ffunc)
       IN  IF ret[t].p = NULL
           THEN Return(t, RetB(FALSE))
           ELSE Goto(t, [f EXCEPT !.pc = "resolve", !.fmod = ret[t].p,
                                  !.func = r.func, !.fwd = r.fwd])
    /\ UNCHANGED <<lock, hist>>
    /\ UNCH_loader /\ UNCH_env

(***************************************************************************)
(* privload_locate_and_load(impname, dependent)                            *)
(***************************************************************************)
\* the directories tried, in order: the client library directories, then
\* <systemroot>/system32, then <systemroot>
SearchDirs ==
    search_paths \o (IF systemroot # "" THEN <<"sys32", systemroot>> ELSE <<>>)

\* fault injection: the last directory that holds the file is tried first
NextHit_last(name, k) ==
    LET hits == {n \in k..Len(SearchDirs) : FileExists(SearchDirs[n], name)}
    IN  IF hits = {} THEN 0 ELSE CHOOSE n \in hits : \A h \in hits : n >= h

\* the first directory at or after position k that holds the file, or 0
NextHit(name, k) ==
    LET hits == {n \in k..Len(SearchDirs) : FileExists(SearchDirs[n], name)}
    IN  IF hits = {} THEN 0 ELSE CHOOSE n \in hits : \A h \in hits : n <= h

Locate_start(t) ==
    /\ At(t, "privload_locate_and_load", "start")
    /\ LET f == Top(t)
           n == NextHit(f.name, f.k)
       IN  IF n = 0
           THEN Return(t, RetP(NULL))
           ELSE Call(t, [f EXCEPT !.pc = "tried", !.k = n],
                     [Frame("privload_load", "start") EXCEPT
                         !.path = <<SearchDirs[n], f.name>>, !.dep = f.dep])
    /\ UNCHANGED <<lock, hist>>
    /\ UNCH_loader /\ UNCH_env

\* privload_load has returned; j counts the files that did not load
Locate_tried(t) ==
    /\ At(t, "privload_locate_and_load", "tried")
    /\ IF ret[t].p # NULL
       THEN Return(t, RetP(ret[t].p))
       ELSE Goto(t, [Top(t) EXCEPT !.pc = "start", !.k = Top(t).k + 1,
                                   !.j = Top(t).j + 1])
    /\ UNCHANGED <<lock, hist>>
    /\ UNCH_loader /\ UNCH_env


(***************************************************************************)
(* privload_unload(privmod)                                                *)
(***************************************************************************)
\* fault injection: the count drops by two
RefDec_twice(m, p) == [m EXCEPT ![p].ref_count = @ - 2]

\* privmod->ref_count--
RefDec(m, p) == [m EXCEPT ![p].ref_count = @ - 1]

\* HEAP_TYPE_FREE(privmod): every pointer to the record dangles from now on
FreeStacks(t, b) ==
    /\ stk' = [u \in Threads |->
                 TombStack(b, IF u = t THEN Pop(stk[u]) ELSE stk[u])]
    /\ ret' = [u \in Threads |->
                 IF u = t THEN RetB(TRUE)
                 ELSE [ret[u] EXCEPT !.p = Tomb(b, @)]]

Unload_start(t) ==
    /\ At(t, "privload_unload", "start")
    /\ Top(t).mod > 0
    /\ LET f == Top(t)
           m == f.mod
       IN  IF mods[m].ref_count - 1 # 0
           THEN /\ mods' = RefDec(mods, m)
                /\ Return(t, RetB(FALSE))
                /\ UNCHANGED modlist
           ELSE /\ modlist' = ListRemove(modlist, m)
                /\ IF ~mods[m].externally_loaded
                   THEN /\ mods' = RefDec(mods, m)
                        /\ Call(t, [f EXCEPT !.pc = "detached"],
                                [Frame("privload_call_entry", "start") EXCEPT
                                    !.mod = m, !.reason = DLL_PROCESS_DETACH])
                   ELSE /\ mods' = Del(mods, m)
                        /\ FreeStacks(t, m)
    /\ UNCHANGED <<heap_init, modlist_areas, maps, privmod_static,
                   search_paths, systemroot, attached, loadinfo, lock,
                   hist>>
    /\ UNCH_env

Unload_detached(t) ==
    /\ At(t, "privload_unload", "detached")
    /\ Call(t, [Top(t) EXCEPT !.pc = "unimported"],
            [Frame("privload_unload_imports", "start") EXCEPT
                !.mod = Top(t).mod])
    /\ UNCHANGED <<lock, hist>>
    /\ UNCH_loader /\ UNCH_env

\* vmvector_remove, unmap_file, HEAP_TYPE_FREE, return true
Unload_unimported(t) ==
    /\ At(t, "privload_unload", "unimported")
    /\ LET m == Top(t).mod
       IN  /\ modlist_areas' =
                 vmvector_remove(modlist_areas, mods[m].base,
                                 mods[m].base + mods[m].size)
           /\ maps' = Del(maps, mods[m].base)
           /\ attached' = attached \ {mods[m].base}
           /\ mods' = Del(mods, m)
           /\ loadinfo' = Forget(loadinfo, m)
           /\ FreeStacks(t, m)
    /\ UNCHANGED <<heap_init, modlist, privmod_static, search_paths,
                   systemroot, lock, hist>>
    /\ UNCH_env

\* privload_unload on a record that was already freed reads freed memory.
\* When the memory still holds the old record, its ref_count of 0 wraps
\* around on the decrement, is not 0, and the call returns false ...
Unload_freed_stale(t) ==
    /\ At(t, "privload_unload", "start")
    /\ Top(t).mod < 0
    /\ Return(t, RetB(FALSE))
    /\ UNCHANGED <<lock, hist>>
    /\ UNCH_loader /\ UNCH_env

\* ... and when it does not, the process dies.
Unload_freed_crash(t) ==
    /\ At(t, "privload_unload", "start")
    /\ Top(t).mod < 0
    /\ crashed' = TRUE
    /\ UNCHANGED <<world, phase, stk, ret, lock, hist>>
    /\ UNCH_loader /\ UNCH_redirect

(***************************************************************************)
(* privload_unload_imports(mod)                                            *)
(***************************************************************************)
UnloadImports_start(t) ==
    /\ At(t, "privload_unload_imports", "start")
    /\ IF Len(ImportsOf(Top(t).mod)) = 0
       THEN Return(t, RetB(TRUE))
       ELSE Goto(t, [Top(t) EXCEPT !.pc = "desc", !.i = 1])
    /\ UNCHANGED <<lock, hist>>
    /\ UNCH_loader /\ UNCH_env

UnloadImports_desc(t) ==
    /\ At(t, "privload_unload_imports", "desc")
    /\ LET f == Top(t)
           imports == ImportsOf(f.mod)
           impmod == privload_lookup(<<".", imports[f.i].name>>)
       IN  IF f.i > Len(imports)
           THEN Return(t, RetB(TRUE))
           ELSE IF impmod # NULL
                THEN Call(t, [f EXCEPT !.i = f.i + 1],
                          [Frame("privload_unload", "start") EXCEPT !.mod = impmod])
                ELSE Goto(t, [f EXCEPT !.i = f.i + 1])
    /\ UNCHANGED <<lock, hist>>
    /\ UNCH_loader /\ UNCH_env

(***************************************************************************)
(* loader_init()                                                           *)
(***************************************************************************)
\* fault injection: a registration that leaves externally_loaded false
External_unmarked(base, img) ==
    [base |-> base, size |-> Images[img].size, name |-> Images[img].short,
     ref_count |-> 1, externally_loaded |-> FALSE]

External(base, img) ==
    [base |-> base, size |-> Images[img].size, name |-> Images[img].short,
     ref_count |-> 1, externally_loaded |-> TRUE]

\* the heap is up and the host calls loader_init
CallLoaderInit(t) ==
    /\ ~crashed /\ stk[t] = <<>>
    /\ phase = "boot"
    /\ phase' = "init"
    /\ heap_init' = TRUE
    /\ stk' = [stk EXCEPT ![t] = <<Frame("loader_init", "start")>>]
    /\ HistBegin("init", NoPath, NULL)
    /\ fls_cb_list' = <<NULL>>
    /\ UNCHANGED <<hblocks, hcell, nblocks, hop, fop, dynamo_areas, touch,
                   privload_fls_lock, native>>
    /\ UNCHANGED <<world, crashed, modlist, mods, modlist_areas, maps,
                   privmod_static, search_paths, systemroot, attached,
                   loadinfo, ret, lock>>

\* the lock, the search paths, the area vector, and the records of the
\* modules the OS loaded: ntdll, the runtime itself, user32 when present
LoaderInit_start(t) ==
    /\ At(t, "loader_init", "start")
    /\ CanAcquire(t)
    /\ lock' = Acquired(t)
    /\ systemroot' = "win"
    /\ modlist_areas' = {}
    /\ mods' = [b \in OsBases |-> External(b, OsImg(b))]
    /\ modlist' = (IF W.user32 THEN <<User32Base>> ELSE <<>>)
                  \o <<DrBase, NtdllBase>>
    /\ Goto(t, [Top(t) EXCEPT !.pc = "static", !.i = 1])
    /\ UNCHANGED <<heap_init, maps, privmod_static, search_paths, attached,
                   loadinfo, hist>>
    /\ UNCH_env

\* the client libraries loaded before the heap existed: move each record
\* to the list and finalize it
LoaderInit_static(t) ==
    /\ At(t, "loader_init", "static")
    /\ LET f == Top(t)
           st == privmod_static[f.i]
       IN  IF f.i > Len(privmod_static)
           THEN /\ lock' = Released
                /\ phase' = "run"
                /\ Return(t, RetB(TRUE))
                /\ HistEnd(NULL, TRUE)
                /\ UNCHANGED <<mods, modlist, loadinfo>>
           ELSE /\ mods' = Put(mods, st.base, st)
                /\ loadinfo' = Put(loadinfo, st.base, Loading(NULL))
                /\ modlist' = ListInsert(modlist, NULL, st.base)
                /\ Call(t, [f EXCEPT !.i = f.i + 1],
                        [Frame("privload_load_finalize", "start") EXCEPT
                            !.mod = st.base])
                /\ UNCHANGED <<lock, phase, hist>>
    /\ UNCHANGED <<world, crashed, heap_init, modlist_areas, maps,
                   privmod_static, search_paths, systemroot, attached>>
    /\ UNCH_redirect

(***************************************************************************)
(* loader_thread_init(dcontext) and loader_thread_exit(dcontext): the same *)
(* walk over the list, with DLL_THREAD_ATTACH and DLL_THREAD_DETACH        *)
(***************************************************************************)
CallThread(t, reason) ==
    /\ ~crashed /\ stk[t] = <<>>
    /\ phase = "run" /\ RunOps < MaxOps
    /\ stk' = [stk EXCEPT ![t] =
                  <<[Frame("loader_thread", "lock") EXCEPT !.reason = reason]>>]
    /\ HistBegin(IF reason = DLL_THREAD_ATTACH THEN "thread_init"
                 ELSE "thread_exit", NoPath, NULL)
    /\ UNCHANGED <<ret, lock>>
    /\ UNCH_loader /\ UNCH_env

\* fault injection: a walk that starts at the second record of the list
Thread_lock_second(t) ==
    /\ At(t, "loader_thread", "lock")
    /\ CanAcquire(t)
    /\ lock' = Acquired(t)
    /\ Goto(t, [Top(t) EXCEPT !.pc = "walk", !.k = 2])
    /\ UNCHANGED hist
    /\ UNCH_loader /\ UNCH_env

Thread_lock(t) ==
    /\ At(t, "loader_thread", "lock")
    /\ CanAcquire(t)
    /\ lock' = Acquired(t)
    /\ Goto(t, [Top(t) EXCEPT !.pc = "walk", !.k = 1])
    /\ UNCHANGED hist
    /\ UNCH_loader /\ UNCH_env

\* for (mod = modlist; mod != NULL; mod = mod->next)
Thread_walk(t) ==
    /\ At(t, "loader_thread", "walk")
    /\ LET f == Top(t)
       IN  IF f.k > Len(modlist)
           THEN /\ lock' = Released
                /\ Return(t, RetB(TRUE))
                /\ HistEnd(NULL, TRUE)
           ELSE /\ IF ~mods[modlist[f.k]].externally_loaded
                   THEN Call(t, [f EXCEPT !.k = f.k + 1],
                             [Frame("privload_call_entry", "start") EXCEPT
                                 !.mod = modlist[f.k], !.reason = f.reason])
                   ELSE Goto(t, [f EXCEPT !.k = f.k + 1])
                /\ UNCHANGED <<lock, hist>>
    /\ UNCH_loader /\ UNCH_env

(***************************************************************************)
(* loader_exit()                                                           *)
(***************************************************************************)
CallLoaderExit(t) ==
    /\ ~crashed /\ stk[t] = <<>>
    /\ phase = "run" /\ RunOps < MaxOps
    /\ stk' = [stk EXCEPT ![t] = <<Frame("loader_exit", "lock")>>]
    /\ HistBegin("exit", NoPath, NULL)
    /\ UNCHANGED <<ret, lock>>
    /\ UNCH_loader /\ UNCH_env

LoaderExit_lock(t) ==
    /\ At(t, "loader_exit", "lock")
    /\ CanAcquire(t)
    /\ lock' = Acquired(t)
    /\ Goto(t, [Top(t) EXCEPT !.pc = "loop"])
    /\ UNCHANGED hist
    /\ UNCH_loader /\ UNCH_env

\* while (modlist != NULL) privload_unload(modlist); then the area vector
\* is deleted and the lock released
LoaderExit_loop(t) ==
    /\ At(t, "loader_exit", "loop")
    /\ IF modlist # <<>>
       THEN /\ Call(t, Top(t),
                    [Frame("privload_unload", "start") EXCEPT
                        !.mod = modlist[1]])
            /\ UNCHANGED <<modlist_areas, lock, phase, hist, fls_cb_list>>
       ELSE /\ modlist_areas' = {}
            /\ lock' = Released
            /\ fls_cb_list' = <<>>
            /\ phase' = "exited"
            /\ Return(t, RetB(TRUE))
            /\ HistEnd(NULL, TRUE)
    /\ UNCHANGED <<world, crashed, heap_init, modlist, mods, maps,
                   privmod_static, search_paths, systemroot, attached,
                   loadinfo>>
    /\ UNCHANGED <<hblocks, hcell, nblocks, hop, fop, dynamo_areas, touch,
                   privload_fls_lock, native>>

(***************************************************************************)
(* Rtl*Heap redirection.  Memory is counted in units of sizeof(size_t);    *)
(* a SIZE_T is one byte wide here.  The host owns the addresses of         *)
(* DynamoRange: its heap arena and, past it, two addresses of its own      *)
(* data that were never handed out by global_heap_alloc.                   *)
(***************************************************************************)
SizeT(n) == n % 256

ProcessHeap == "ProcessHeap"
Heaps == {ProcessHeap, "heap2"}

Arena == 110..(109 + HeapCells)
DrData == 111 + HeapCells
DynamoRange == Arena \cup {DrData - SizeOfSizeT, DrData}
NativeAddrs == {140, 150}

is_dynamo_address(p) == p \in DynamoRange \cup dynamo_areas

\* what memory holds where nothing was stored yet
Garbage(a) == 1 + (a % 2)

\* the heaps as one call of a redirection sees and leaves them, with what
\* the call did so far: the native routines it called, the size headers
\* it read, the blocks it took from and gave back to the host heap, the
\* units it copied
HeapState ==
    [hb |-> hblocks, hc |-> hcell, nb |-> nblocks, natives |-> <<>>,
     reads |-> {}, allocs |-> <<>>, frees |-> <<>>, copied |-> 0,
     crash |-> FALSE]

Out(S, res) == [s |-> S, res |-> res]

Native(S, fn, heap, flags, ptr, size) ==
    [S EXCEPT !.natives =
        Append(@, [fn |-> fn, heap |-> heap, flags |-> flags, ptr |-> ptr,
                   size |-> size])]

Cell(S, a) == IF a \in DOMAIN S.hc THEN S.hc[a] ELSE Garbage(a)

Lowest(A) == CHOOSE a \in A : \A b \in A : a <= b

\* the native routines of ntdll: a block of an OS heap is known by its
\* address; a pointer the heap does not know is answered either way
RtlAllocateHeap(S, heap, flags, size) ==
    LET S1 == Native(S, "RtlAllocateHeap", heap, flags, NULL, size)
        free == NativeAddrs \ DOMAIN S.nb
    IN  IF free = {} THEN {Out(S1, NULL)}
        ELSE {Out([S1 EXCEPT !.nb = Put(@, Lowest(free),
                                        [heap |-> heap, size |-> size])],
                  Lowest(free))}

RtlReAllocateHeap(S, heap, flags, ptr, size) ==
    LET S1 == Native(S, "RtlReAllocateHeap", heap, flags, ptr, size)
    IN  IF ptr \in DOMAIN S.nb /\ S.nb[ptr].heap = heap
        THEN {Out([S1 EXCEPT !.nb[ptr].size = size], ptr)}
        ELSE {Out(S1, NULL)}

RtlFreeHeap(S, heap, flags, ptr) ==
    LET S1 == Native(S, "RtlFreeHeap", heap, flags, ptr, 0)
    IN  IF ptr \in DOMAIN S.nb /\ S.nb[ptr].heap = heap
        THEN {Out([S1 EXCEPT !.nb = Del(@, ptr)], TRUE)}
        ELSE {Out(S1, TRUE), Out(S1, FALSE)}

RtlSizeHeap(S, heap, flags, ptr) ==
    LET S1 == Native(S, "RtlSizeHeap", heap, flags, ptr, 0)
    IN  IF ptr \in DOMAIN S.nb /\ S.nb[ptr].heap = heap
        THEN {Out(S1, S.nb[ptr].size)}
        ELSE {Out(S1, SizeT(-1))}

\* global_heap_alloc(size): the lowest run of free units of the arena
global_heap_alloc(hb, size) ==
    LET used == UNION {a..(a + hb[a].size - 1) : a \in DOMAIN hb}
        fits == {a \in Arena : \A x \in a..(a + size - 1) :
                                   x \in Arena \ used}
    IN  IF size = 0 \/ fits = {} THEN NULL ELSE Lowest(fits)

\* global_heap_free(p, size): gives the block back; anything that is not a
\* block of that size corrupts the heap, noticed at once or not at all
global_heap_free(S, p, size) ==
    LET S1 == [S EXCEPT !.frees = Append(@, [addr |-> p, size |-> size])]
    IN  IF p \in DOMAIN S.hb /\ S.hb[p].size = size
        THEN {[S1 EXCEPT !.hb = Del(@, p)]}
        ELSE {S1, [S1 EXCEPT !.crash = TRUE]}

\* fault injection: every heap is taken for the process heap
OnAnyHeap(heap) == heap \in Heaps

\* heap == peb->ProcessHeap
OnProcessHeap(heap) == heap = ProcessHeap

\* fault injection: the pointer's owner is not looked at
IsPrivate_any_pointer(heap, ptr) == OnProcessHeap(heap) /\ ptr # NULL

\* heap == peb->ProcessHeap && is_dynamo_address(ptr)
IsPrivate(heap, ptr) == OnProcessHeap(heap) /\ is_dynamo_address(ptr)

\* redirect_RtlAllocateHeap(heap, flags, size)
redirect_RtlAllocateHeap(S, heap, flags, size) ==
    IF OnProcessHeap(heap)
    THEN LET total == SizeT(size + SizeOfSizeT)
             mem == global_heap_alloc(S.hb, total)
             S1 == [S EXCEPT !.allocs =
                       Append(@, [addr |-> mem, size |-> total])]
         IN  IF mem = NULL THEN {Out(S1, NULL)}
             ELSE {Out([S1 EXCEPT
                          !.hb = Put(@, mem, [size |-> total, req |-> size]),
                          !.hc = [a \in DOMAIN @ |->
                                    IF a = mem THEN total
                                    ELSE IF /\ flags = HEAP_ZERO_MEMORY
                                            /\ a \in (mem + SizeOfSizeT)..
                                                     (mem + total - 1)
                                         THEN 0 ELSE @[a]]],
                       mem + SizeOfSizeT)}
    ELSE RtlAllocateHeap(S, heap, flags, size)

\* redirect_RtlFreeHeap(heap, flags, ptr)
redirect_RtlFreeHeap(S, heap, flags, ptr) ==
    IF IsPrivate(heap, ptr)
    THEN IF ptr # NULL
         THEN LET p == ptr - SizeOfSizeT
                  S1 == [S EXCEPT !.reads = @ \cup {p}]
              IN  {Out(S2, TRUE) : S2 \in global_heap_free(S1, p, Cell(S, p))}
         ELSE {Out(S, FALSE)}
    ELSE RtlFreeHeap(S, heap, flags, ptr)

\* redirect_RtlSizeHeap(heap, flags, ptr)
redirect_RtlSizeHeap(S, heap, flags, ptr) ==
    IF IsPrivate(heap, ptr)
    THEN IF ptr # NULL
         THEN {Out([S EXCEPT !.reads = @ \cup {ptr - SizeOfSizeT}],
                   Cell(S, ptr - SizeOfSizeT))}
         ELSE {Out(S, 0)}
    ELSE RtlSizeHeap(S, heap, flags, ptr)

MIN(a, b) == IF a < b THEN a ELSE b

\* memcpy(buf, ptr, n) into the host's memory
memcpy(S, buf, ptr, n) ==
    [S EXCEPT !.copied = n,
              !.hc = [a \in DOMAIN @ |->
                        IF a \in buf..(buf + n - 1)
                        THEN Cell(S, ptr + (a - buf)) ELSE @[a]]]

\* what *((size_t *)(ptr - sizeof(size_t))) yields: the unit in front of
\* ptr; in front of a NULL pointer there is no memory, and the read
\* faults or, failing that, yields some value
OldSizes(S, ptr) ==
    IF ptr = NULL
    THEN {[fault |-> TRUE, v |-> 0], [fault |-> FALSE, v |-> 0],
          [fault |-> FALSE, v |-> MaxReq]}
    ELSE {[fault |-> FALSE, v |-> Cell(S, ptr - SizeOfSizeT)]}

\* redirect_RtlReAllocateHeap(heap, flags, ptr, size), after its
\* allocation A returned a buffer: the copy, then the free of ptr
ReAllocCopyFree(A, heap, flags, ptr, size) ==
    UNION {IF old.fault \/ (ptr = NULL /\ MIN(old.v, size) > 0)
           THEN {Out([A.s EXCEPT !.crash = TRUE,
                                 !.reads = @ \cup {ptr - SizeOfSizeT}],
                     NULL)}
           ELSE {Out(F.s, A.res) :
                   F \in redirect_RtlFreeHeap(
                            memcpy([A.s EXCEPT
                                      !.reads = @ \cup {ptr - SizeOfSizeT}],
                                   A.res, ptr, MIN(old.v, size)),
                            heap, flags, ptr)}
           : old \in OldSizes(A.s, ptr)}

redirect_RtlReAllocateHeap(S, heap, flags, ptr, size) ==
    IF IsPrivate(heap, ptr) \/ (OnProcessHeap(heap) /\ ptr = NULL)
    THEN UNION {IF A.res # NULL
                THEN ReAllocCopyFree(A, heap, flags, ptr, size)
                ELSE {Out(F.s, NULL) :
                        F \in redirect_RtlFreeHeap(A.s, heap, flags, ptr)}
                : A \in redirect_RtlAllocateHeap(S, heap, flags, size)}
    ELSE RtlReAllocateHeap(S, heap, flags, ptr, size)

\* the pointers private library code passes: NULL, the blocks it holds
\* from either allocator, and an address of the host's own data
HeapPtrs ==
    {NULL, DrData} \cup {a + SizeOfSizeT : a \in DOMAIN hblocks}
    \cup DOMAIN nblocks

\* a call of redirection fn took the heaps to out.s and returned out.res
HeapCall(fn, heap, flags, ptr, size, out) ==
    /\ ~crashed
    /\ hop.n < MaxHeapOps
    /\ hblocks' = out.s.hb
    /\ hcell' = out.s.hc
    /\ nblocks' = out.s.nb
    /\ crashed' = out.s.crash
    /\ hop' = [fn |-> fn, heap |-> heap, flags |-> flags, ptr |-> ptr,
               size |-> size, res |-> out.res, n |-> hop.n + 1,
               pre |-> [hb |-> hblocks, hc |-> hcell, nb |-> nblocks],
               natives |-> out.s.natives, reads |-> out.s.reads,
               allocs |-> out.s.allocs, frees |-> out.s.frees,
               copied |-> out.s.copied]
    /\ UNCHANGED <<world, heap_init, modlist, mods, modlist_areas, maps,
                   privmod_static, search_paths, systemroot, stk, ret, lock,
                   phase, attached, loadinfo, hist, fls_cb_list, fop,
                   dynamo_areas, touch, privload_fls_lock, native>>

Heap_Allocate(heap, flags, size) ==
    \E out \in redirect_RtlAllocateHeap(HeapState, heap, flags, size) :
        HeapCall("RtlAllocateHeap", heap, flags, NULL, size, out)

Heap_ReAllocate(heap, flags, ptr, size) ==
    \E out \in redirect_RtlReAllocateHeap(HeapState, heap, flags, ptr, size) :
        HeapCall("RtlReAllocateHeap", heap, flags, ptr, size, out)

Heap_Free(heap, ptr) ==
    \E out \in redirect_RtlFreeHeap(HeapState, heap, 0, ptr) :
        HeapCall("RtlFreeHeap", heap, 0, ptr, 0, out)

Heap_Size(heap, ptr) ==
    \E out \in redirect_RtlSizeHeap(HeapState, heap, 0, ptr) :
        HeapCall("RtlSizeHeap", heap, 0, ptr, 0, out)

(***************************************************************************)
(* The FLS callbacks.  fls_cb_list is the list of the cb fields, the head  *)
(* node (cb == NULL) first; a new node goes right behind the head.         *)
(***************************************************************************)
\* what the real FlsAlloc returns: a slot index or FLS_OUT_OF_INDEXES
FlsSlots == {"slot", "FLS_OUT_OF_INDEXES"}

\* the words private_lib_handle_cb finds: the return address on top of the
\* stack, the argument above it (32-bit) or in xcx (64-bit)
Words == [retaddr |-> "retaddr", stackarg |-> "stackarg", xcx |-> "xcx",
          none |-> "NULL"]

NoFop ==
    [fn |-> "", pc |-> NULL, res |-> "", n |-> 0, natives |-> <<>>,
     invoked |-> <<>>, popped |-> 0, next_tag |-> Words.none,
     x64 |-> FALSE, retok |-> FALSE, argok |-> FALSE]

\* redirect_FlsAlloc(cb), where inlib is what in_private_library(cb)
\* returned and slot is what the real FlsAlloc returns
redirect_FlsAlloc(cb, inlib, slot) ==
    /\ IF inlib
       THEN /\ fls_cb_list' = <<Head(fls_cb_list), cb>> \o Tail(fls_cb_list)
            /\ dynamo_areas' = dynamo_areas \cup {cb}
       ELSE UNCHANGED <<fls_cb_list, dynamo_areas>>
    /\ fop' = [NoFop EXCEPT !.fn = "FlsAlloc", !.pc = cb, !.res = slot,
                            !.n = fop.n + 1,
                            !.natives = <<[fn |-> "FlsAlloc", cb |-> cb,
                                           res |-> slot]>>]

\* fault injection: the callback runs although the return address cannot
\* be read
private_lib_handle_cb_unchecked(list, pc, x64, retok, argok) ==
    LET hits == {k \in 1..Len(list) : list[k] # NULL /\ list[k] = pc}
    IN  IF hits = {}
        THEN [redirected |-> FALSE, invoked |-> <<>>, popped |-> 0,
              next_tag |-> Words.none]
        ELSE [redirected |-> TRUE,
              invoked |-> <<[cb |-> pc, arg |-> Words.xcx]>>,
              popped |-> 1, next_tag |-> Words.retaddr]

\* private_lib_handle_cb(dcontext, pc) on list: what it returns, the
\* callbacks it calls, the words it pops off the stack and the new
\* next_tag (none: left alone).  retok, argok: safe_read of the return
\* address, of the argument, succeeds
private_lib_handle_cb(list, pc, x64, retok, argok) ==
    LET hits == {k \in 1..Len(list) : list[k] # NULL /\ list[k] = pc}
        e == CHOOSE k \in hits : \A h \in hits : k <= h
        arg == IF x64 THEN Words.xcx
               ELSE IF argok THEN Words.stackarg ELSE Words.none
    IN  IF hits # {} /\ retok
        THEN [redirected |-> TRUE,
              invoked |-> <<[cb |-> list[e], arg |-> arg]>>,
              popped |-> IF x64 THEN 1 ELSE 2,
              next_tag |-> Words.retaddr]
        ELSE [redirected |-> FALSE, invoked |-> <<>>, popped |-> 0,
              next_tag |-> Words.none]

\* code of a private library runs on thread t: between the calls of the
\* public API, or inside an entry point
RunsPrivateCode(t) ==
    /\ ~crashed /\ phase = "run"
    /\ stk[t] = <<>> \/ At(t, "privload_call_entry", "call")
    /\ fop.n < MaxFlsOps

UNCH_fls ==
    UNCHANGED <<world, heap_init, modlist, mods, modlist_areas, maps,
                privmod_static, search_paths, systemroot, stk, ret, lock,
                phase, crashed, attached, loadinfo, hist, hblocks, hcell,
                nblocks, hop, touch, privload_fls_lock, native>>

\* the callbacks a private library registers or that are called: an
\* address in each mapped image, one in a library that is gone or was
\* never there, the callbacks recorded, and NULL
FlsPcs ==
    DOMAIN maps \cup {BogusBase, NULL}
    \cup {fls_cb_list[k] : k \in 1..Len(fls_cb_list)}

Fls_Alloc(t, cb) ==
    /\ RunsPrivateCode(t)
    /\ \E slot \in FlsSlots :
          redirect_FlsAlloc(cb, in_private_library(cb), slot)
    /\ UNCH_fls

\* fault injection: a callback that was called is taken off the list
Fls_HandleCb_once(t, pc) ==
    /\ RunsPrivateCode(t)
    /\ \E x64 \in BOOLEAN, retok \in BOOLEAN, argok \in BOOLEAN :
          LET r == private_lib_handle_cb(fls_cb_list, pc, x64, retok, argok)
          IN  /\ fop' = [NoFop EXCEPT !.fn = "handle_cb", !.pc = pc,
                             !.res = IF r.redirected THEN "true" ELSE "false",
                             !.n = fop.n + 1, !.invoked = r.invoked,
                             !.popped = r.popped, !.next_tag = r.next_tag,
                             !.x64 = x64, !.retok = retok, !.argok = argok]
              /\ fls_cb_list' =
                    IF r.redirected
                    THEN SelectSeq(fls_cb_list, LAMBDA c : c # pc)
                    ELSE fls_cb_list
    /\ UNCHANGED dynamo_areas
    /\ UNCH_fls

\* private_lib_handle_cb(dcontext, pc)
Fls_HandleCb(t, pc) ==
    /\ RunsPrivateCode(t)
    /\ \E x64 \in BOOLEAN, retok \in BOOLEAN, argok \in BOOLEAN :
          LET r == private_lib_handle_cb(fls_cb_list, pc, x64, retok, argok)
          IN  fop' = [NoFop EXCEPT !.fn = "handle_cb", !.pc = pc,
                         !.res = IF r.redirected THEN "true" ELSE "false",
                         !.n = fop.n + 1, !.invoked = r.invoked,
                         !.popped = r.popped, !.next_tag = r.next_tag,
                         !.x64 = x64, !.retok = retok, !.argok = argok]
    /\ UNCHANGED <<fls_cb_list, dynamo_areas>>
    /\ UNCH_fls

(***************************************************************************)
(* A second thread: code of a private library, or of the host, that runs   *)
(* on a thread of its own while the threads of Threads load and unload.    *)
(* It takes privload_lock where the code takes it; a routine that takes    *)
(* and releases the lock is one step, taken when the lock is free.         *)
(***************************************************************************)
AppThreads == {2}

\* thread t is about to call vmvector_add_area / vmvector_remove /
\* vmvector_delete_vector on modlist_areas
WritesAreas(t) ==
    \/ At(t, "privload_load_finalize", "start")
    \/ At(t, "privload_unload", "unimported")
    \/ At(t, "loader_exit", "loop") /\ modlist = <<>>

\* what vmvector_overlap(modlist_areas, pc, pc+1) yields on thread u: the
\* vector has no lock of its own (VECTOR_NO_LOCK), so a lookup that runs
\* while another thread rewrites the vector yields either answer
OverlapSeen(u, pc) ==
    IF lock.owner \notin {0, u} /\ \E t \in Threads : WritesAreas(t)
    THEN BOOLEAN
    ELSE {in_private_library(pc)}

\* the addresses and names the second thread passes
AppPcs == DOMAIN maps \cup {BogusBase}

AppBases == AppPcs \cup {NtdllBase}

AppNames == {<<".", f.name>> : f \in W.fs}

AppSyms == {"RtlAllocateHeap", "NtClose"}

Touched(u, fn, arg, owner, res, n) ==
    [t |-> u, fn |-> fn, arg |-> arg, owner |-> owner, res |-> res, n |-> n]

AppCall(u, fn, arg, owner, res) ==
    /\ ~crashed /\ phase = "run"
    /\ touch.n < MaxAppOps
    /\ touch' = Touched(u, fn, arg, owner, res, touch.n + 1)
    /\ UNCHANGED <<world, heap_init, modlist, mods, modlist_areas, maps,
                   privmod_static, search_paths, systemroot, stk, ret, lock,
                   phase, crashed, attached, loadinfo, hist, hblocks, hcell,
                   nblocks, hop, privload_fls_lock, native>>

\* in_private_library(pc), called without the lock
App_in_private_library(u, pc) ==
    \E res \in OverlapSeen(u, pc) :
        /\ AppCall(u, "in_private_library", <<pc>>, lock.owner, res)
        /\ UNCHANGED <<fls_cb_list, fop, dynamo_areas>>

\* redirect_FlsAlloc(cb): in_private_library without the lock; a callback
\* in a private library is put behind the head node of fls_cb_list and its
\* address is made a host address
App_FlsAlloc(u, cb) ==
    \E res \in OverlapSeen(u, cb), slot \in FlsSlots :
        /\ AppCall(u, "FlsAlloc", <<cb>>, lock.owner, res)
        /\ redirect_FlsAlloc(cb, res, slot)

\* redirect_GetModuleHandleA(name): privload_lookup under the lock
App_GetModuleHandleA(u, name) ==
    /\ CanAcquire(u)
    /\ AppCall(u, "GetModuleHandleA", name, u, privload_lookup(name))
    /\ UNCHANGED <<fls_cb_list, fop, dynamo_areas>>

\* redirect_GetProcAddress(modbase, name): privload_lookup_by_base,
\* privload_redirect_imports and get_proc_address_ex under the lock
App_GetProcAddress(u, modbase, name) ==
    /\ CanAcquire(u)
    /\ LET mod == privload_lookup_by_base(modbase)
           red == privload_redirect_imports(mods[mod].name, name)
       IN  AppCall(u, "GetProcAddress", <<modbase, name>>, u,
                   IF mod = NULL THEN NoFunc
                   ELSE IF red # NoFunc THEN red
                   ELSE get_proc_address_ex(modbase, name).func)
    /\ UNCHANGED <<fls_cb_list, fop, dynamo_areas>>

(***************************************************************************)
(* privload_lock and privload_fls_lock.  redirect_FlsAlloc,                *)
(* private_lib_handle_cb and redirect_GetModuleHandleA one lock operation  *)
(* at a time, on the thread that loads and on a second thread.  A thread   *)
(* that asks for a lock it cannot get stays where it is.                   *)
(***************************************************************************)
LockThreads == Threads \cup AppThreads

NFrame(fn, pc, cb) == [fn |-> fn, pc |-> pc, cb |-> cb]

NTop(u) == native[u][Len(native[u])]

NAt(u, fn, pc) ==
    /\ ~crashed
    /\ native[u] # <<>>
    /\ NTop(u).fn = fn
    /\ NTop(u).pc = pc

NGoto(u, pc) == native' = [native EXCEPT ![u][Len(native[u])].pc = pc]

NCall(u, fr) == native' = [native EXCEPT ![u] = Append(@, fr)]

NReturn(u) == native' = [native EXCEPT ![u] = SubSeq(@, 1, Len(@) - 1)]

UNCH_native ==
    UNCHANGED <<world, heap_init, modlist, mods, modlist_areas, maps,
                privmod_static, search_paths, systemroot, stk, ret, phase,
                crashed, attached, loadinfo, hist, hblocks, hcell, nblocks,
                hop, fop, touch>>

\* thread u runs no loader code and no native code: interpreted code
Interpreted(u) ==
    /\ ~crashed /\ phase = "run"
    /\ native[u] = <<>>
    /\ IF u \in AppThreads THEN TRUE ELSE stk[u] = <<>>

\* code of a private library runs natively on thread u and may call a
\* redirected import: a callback that private_lib_handle_cb called, an
\* entry point the loader called, or code the host called
PrivateCodeRuns(u) ==
    /\ ~crashed /\ phase = "run"
    /\ IF native[u] # <<>>
       THEN NTop(u).fn = "private_lib_handle_cb" /\ NTop(u).pc = "callback"
       ELSE IF u \in AppThreads THEN TRUE
            ELSE stk[u] = <<>> \/ At(u, "privload_call_entry", "call")

\* mutex_lock(&privload_fls_lock): the mutex is not recursive
FlsLockFree == privload_fls_lock = 0

\* redirect_FlsAlloc(cb) is called
FlsAlloc_enter(u, cb) ==
    /\ PrivateCodeRuns(u)
    /\ Len(fls_cb_list) <= MaxCallbacks
    /\ NCall(u, NFrame("redirect_FlsAlloc", "start", cb))
    /\ UNCHANGED <<lock, privload_fls_lock, fls_cb_list, dynamo_areas>>
    /\ UNCH_native

\* if (in_private_library(cb)) ... else return FlsAlloc(cb)
FlsAlloc_start(u) ==
    /\ NAt(u, "redirect_FlsAlloc", "start")
    /\ \E inlib \in OverlapSeen(u, NTop(u).cb) :
          IF inlib THEN NGoto(u, "lock") ELSE NReturn(u)
    /\ UNCHANGED <<lock, privload_fls_lock, fls_cb_list, dynamo_areas>>
    /\ UNCH_native

\* mutex_lock(&privload_fls_lock)
FlsAlloc_lock(u) ==
    /\ NAt(u, "redirect_FlsAlloc", "lock")
    /\ FlsLockFree
    /\ privload_fls_lock' = u
    /\ NGoto(u, "locked")
    /\ UNCHANGED <<lock, fls_cb_list, dynamo_areas>>
    /\ UNCH_native

\* the node goes behind the head node; mutex_unlock; add_dynamo_vm_area;
\* return FlsAlloc(cb)
FlsAlloc_insert(u) ==
    /\ NAt(u, "redirect_FlsAlloc", "locked")
    /\ fls_cb_list' = <<Head(fls_cb_list), NTop(u).cb>> \o Tail(fls_cb_list)
    /\ dynamo_areas' = dynamo_areas \cup {NTop(u).cb}
    /\ privload_fls_lock' = 0
    /\ NReturn(u)
    /\ UNCHANGED lock
    /\ UNCH_native

\* interpreted code reaches pc: private_lib_handle_cb(dcontext, pc)
HandleCb_enter(u, pc) ==
    /\ Interpreted(u)
    /\ NCall(u, NFrame("private_lib_handle_cb", "lock", pc))
    /\ UNCHANGED <<lock, privload_fls_lock, fls_cb_list, dynamo_areas>>
    /\ UNCH_native

\* mutex_lock(&privload_fls_lock)
HandleCb_lock(u) ==
    /\ NAt(u, "private_lib_handle_cb", "lock")
    /\ FlsLockFree
    /\ privload_fls_lock' = u
    /\ NGoto(u, "scan")
    /\ UNCHANGED <<lock, fls_cb_list, dynamo_areas>>
    /\ UNCH_native

\* the walk over the list: at a match whose return address can be read,
\* (*e->cb)(arg) is called with the mutex held
HandleCb_scan(u) ==
    /\ NAt(u, "private_lib_handle_cb", "scan")
    /\ \E x64 \in BOOLEAN, retok \in BOOLEAN, argok \in BOOLEAN :
          IF private_lib_handle_cb(fls_cb_list, NTop(u).cb, x64, retok,
                                   argok).redirected
          THEN NGoto(u, "callback")
          ELSE NGoto(u, "unlock")
    /\ UNCHANGED <<lock, privload_fls_lock, fls_cb_list, dynamo_areas>>
    /\ UNCH_native

\* the callback returns
HandleCb_called(u) ==
    /\ NAt(u, "private_lib_handle_cb", "callback")
    /\ NGoto(u, "unlock")
    /\ UNCHANGED <<lock, privload_fls_lock, fls_cb_list, dynamo_areas>>
    /\ UNCH_native

\* mutex_unlock(&privload_fls_lock); return redirected
HandleCb_unlock(u) ==
    /\ NAt(u, "private_lib_handle_cb", "unlock")
    /\ privload_fls_lock' = 0
    /\ NReturn(u)
    /\ UNCHANGED <<lock, fls_cb_list, dynamo_areas>>
    /\ UNCH_native

\* redirect_GetModuleHandleA(name) is called
GetModuleHandleA_enter(u) ==
    /\ PrivateCodeRuns(u)
    /\ NCall(u, NFrame("redirect_GetModuleHandleA", "lock", NULL))
    /\ UNCHANGED <<lock, privload_fls_lock, fls_cb_list, dynamo_areas>>
    /\ UNCH_native

\* acquire_recursive_lock(&privload_lock)
GetModuleHandleA_lock(u) ==
    /\ NAt(u, "redirect_GetModuleHandleA", "lock")
    /\ CanAcquire(u)
    /\ lock' = Acquired(u)
    /\ NGoto(u, "locked")
    /\ UNCHANGED <<privload_fls_lock, fls_cb_list, dynamo_areas>>
    /\ UNCH_native

\* privload_lookup(name); release_recursive_lock(&privload_lock); return
GetModuleHandleA_unlock(u) ==
    /\ NAt(u, "redirect_GetModuleHandleA", "locked")
    /\ lock' = Released
    /\ NReturn(u)
    /\ UNCHANGED <<privload_fls_lock, fls_cb_list, dynamo_areas>>
    /\ UNCH_native

\* loader_exit is about to take privload_fls_lock and free the list
ExitTakesFlsLock(t) == At(t, "loader_exit", "loop") /\ modlist = <<>>

StepLock(u) ==
    \/ \E cb \in AppPcs : FlsAlloc_enter(u, cb)
    \/ FlsAlloc_start(u) \/ FlsAlloc_lock(u) \/ FlsAlloc_insert(u)
    \/ \E pc \in FlsPcs : HandleCb_enter(u, pc)
    \/ HandleCb_lock(u) \/ HandleCb_scan(u) \/ HandleCb_called(u)
    \/ HandleCb_unlock(u)
    \/ GetModuleHandleA_enter(u) \/ GetModuleHandleA_lock(u)
    \/ GetModuleHandleA_unlock(u)

(***************************************************************************)
(* The specification.                                                      *)
(***************************************************************************)
InitState ==
    /\ heap_init = FALSE
    /\ modlist = <<>>
    /\ mods = [b \in {} |-> PrivMod(b, 0, "")]
    /\ modlist_areas = {}
    /\ maps = [b \in {} |-> FreshMap("ntdll")]
    /\ privmod_static = <<>>
    /\ search_paths = <<>>
    /\ systemroot = ""
    /\ stk = [t \in Threads |-> <<>>]
    /\ ret = [t \in Threads |-> RetB(FALSE)]
    /\ lock = [owner |-> 0, cnt |-> 0]
    /\ phase = "boot"
    /\ crashed = FALSE
    /\ attached = {}
    /\ loadinfo = [b \in {} |-> Loading(NULL)]
    /\ hist = <<>>
    /\ hblocks = [a \in {} |-> [size |-> 0, req |-> 0]]
    /\ hcell = [a \in DynamoRange |-> Garbage(a)]
    /\ nblocks = [a \in {} |-> [heap |-> ProcessHeap, size |-> 0]]
    /\ hop = [fn |-> "", heap |-> ProcessHeap, flags |-> 0, ptr |-> NULL,
              size |-> 0, res |-> NULL, n |-> 0,
              pre |-> [hb |-> hblocks, hc |-> hcell, nb |-> nblocks],
              natives |-> <<>>, reads |-> {}, allocs |-> <<>>,
              frees |-> <<>>, copied |-> 0]
    /\ fls_cb_list = <<>>
    /\ dynamo_areas = {}
    /\ fop = NoFop
    /\ touch = Touched(0, "", <<>>, 0, FALSE, 0)
    /\ privload_fls_lock = 0
    /\ native = [u \in Threads \cup AppThreads |-> <<>>]

Init == world \in WorldIds /\ InitState

\* the steps that loading and unloading a library takes when all the
\* libraries it imports from are resident and nothing fails
StepResident(t) ==
    \/ \E path \in LoadPaths : CallLoad(t, path)
    \/ stk[t] = <<>> /\ \E base \in UnloadBases : CallUnload(t, base)
    \/ CallLoaderInit(t)
    \/ Load_lock(t) \/ Load_loaded(t) \/ Load_unlock(t)
    \/ Unload_lock(t) \/ Unload_unlock(t)
    \/ PrivLoad_start(t) \/ PrivLoad_fin(t)
    \/ Finalize_start(t) \/ Finalize_imports(t) \/ Finalize_attached(t)
    \/ CallEntry_start(t) \/ CallEntry_call(t)
    \/ ProcImports_start(t) \/ ProcImports_desc(t)
    \/ ProcImports_protect(t) \/ ProcImports_thunk(t) \/ ProcImports_bound(t)
    \/ OneImport_start(t) \/ OneImport_resolve(t)
    \/ Unload_start(t) \/ Unload_detached(t) \/ Unload_unimported(t)
    \/ UnloadImports_start(t) \/ UnloadImports_desc(t)
    \/ LoaderInit_start(t) \/ LoaderInit_static(t)
    \/ CallThread(t, DLL_THREAD_ATTACH) \/ CallThread(t, DLL_THREAD_DETACH)
    \/ Thread_lock(t) \/ Thread_walk(t)
    \/ CallLoaderExit(t) \/ LoaderExit_lock(t) \/ LoaderExit_loop(t)

\* the steps of locating a library that is not resident, of a failed load
\* and of an unload that leaves a pointer to a freed record behind
StepLocate(t) ==
    \/ ProcImports_located(t) \/ OneImport_forwloaded(t)
    \/ Locate_start(t) \/ Locate_tried(t)
    \/ Finalize_fail(t)
    \/ Unload_freed_stale(t) \/ Unload_freed_crash(t)

Step(t) == StepResident(t) \/ StepLocate(t)

Next == \E t \in Threads : Step(t)

Spec == Init /\ [][Next]_vars

\* the heap redirections, called by the code of private libraries
InitHeap == Init /\ world = 1

NextHeap ==
    \E heap \in Heaps :
        \/ \E flags \in {0, HEAP_ZERO_MEMORY}, size \in 0..MaxReq :
              \/ Heap_Allocate(heap, flags, size)
              \/ \E ptr \in HeapPtrs : Heap_ReAllocate(heap, flags, ptr, size)
        \/ \E ptr \in HeapPtrs : Heap_Free(heap, ptr)
        \/ \E ptr \in HeapPtrs : Heap_Size(heap, ptr)

SpecHeap == InitHeap /\ [][NextHeap]_vars

\* several threads: the host's, and one that runs private library code
InitMT == Init /\ world = 1

NextMT ==
    \/ \E t \in Threads : StepResident(t)
    \/ \E u \in AppThreads :
          \/ \E pc \in AppPcs : App_in_private_library(u, pc)
          \/ \E cb \in AppPcs : App_FlsAlloc(u, cb)
          \/ \E name \in AppNames : App_GetModuleHandleA(u, name)
          \/ \E modbase \in AppBases, name \in AppSyms :
                App_GetProcAddress(u, modbase, name)

SpecMT == InitMT /\ [][NextMT]_vars

\* the host's thread loads and unloads a library and runs its code, which
\* registers FLS callbacks; the callbacks are called
InitFls == Init /\ world = 1

NextFls ==
    \E t \in Threads :
        \/ StepResident(t) /\ RunOps' <= MaxFlsLoads
        \/ \E cb \in FlsPcs : Fls_Alloc(t, cb)
        \/ \E pc \in FlsPcs : Fls_HandleCb(t, pc)

SpecFls == InitFls /\ [][NextFls]_vars

\* the loader where the directories searched hold a library more than once
InitLocate == world = LocateWorldId /\ InitState

NextLocate ==
    \E t \in Threads :
        \/ StepResident(t)
        \/ ProcImports_located(t)
        \/ Locate_start(t) \/ Locate_tried(t)
        \/ Finalize_fail(t)

SpecLocate == InitLocate /\ [][NextLocate]_vars

\* the loads before the heap exists, and loader_init
InitEarly == world = EarlyWorldId /\ InitState

NextEarly ==
    \E t \in Threads :
        \/ \E path \in LoadPaths : CallLoad(t, path)
        \/ Load_lock(t) \/ Load_loaded(t) \/ Load_unlock(t)
        \/ PrivLoad_start(t)
        \/ CallLoaderInit(t) \/ LoaderInit_start(t) \/ LoaderInit_static(t)
        \/ Finalize_start(t) \/ Finalize_imports(t) \/ Finalize_attached(t)
        \/ CallEntry_start(t) \/ CallEntry_call(t)
        \/ ProcImports_start(t) \/ ProcImports_desc(t)
        \/ ProcImports_protect(t) \/ ProcImports_thunk(t)
        \/ ProcImports_bound(t)
        \/ OneImport_start(t) \/ OneImport_resolve(t)
        \/ CallLoaderExit(t) \/ LoaderExit_lock(t) \/ LoaderExit_loop(t)
        \/ Unload_start(t) \/ Unload_detached(t) \/ Unload_unimported(t)
        \/ UnloadImports_start(t) \/ UnloadImports_desc(t)

SpecEarly == InitEarly /\ [][NextEarly]_vars

\* the loader on one thread, and the FLS routines and GetModuleHandleA on
\* that thread and on a second one
InitLock == Init /\ world = 1

\* a step of the loader on thread t while other threads run native code:
\* loader_exit runs when the other threads are done
LoaderStep(t) ==
    /\ native[t] = <<>>
    /\ ExitTakesFlsLock(t) => \A u \in LockThreads : native[u] = <<>>
    /\ StepResident(t)
    /\ RunOps' <= MaxLockLoads

NextLock ==
    \/ \E t \in Threads : LoaderStep(t)
    \/ \E u \in LockThreads : StepLock(u)

SpecLock == InitLock /\ [][NextLock]_vars

(***************************************************************************)
(* Vocabulary of the properties below.                                     *)
(***************************************************************************)
Last == hist[Len(hist)]

\* the last public call has returned and nothing has run since
JustReturned ==
    /\ Idle
    /\ hist # <<>>
    /\ Last.boot => phase = "boot"

\* the registry positions of the not-externally-loaded modules
PrivatePositions ==
    {k \in 1..Len(modlist) : ~mods[modlist[k]].externally_loaded}

\* no record of the registry snapshot snap describes the library at path
NotResident(snap, path) ==
    \A k \in 1..Len(snap.modlist) :
        ~StrCaseEq(snap.mods[snap.modlist[k]].name,
                   Images[FileImg(path[1], path[2])].short)

\* the modules the registry yields for the names in m's import descriptors
DirectDeps(m) ==
    IF m \in DOMAIN mods /\ Readable(m)
    THEN {privload_lookup(<<".", ImportsOf(m)[i].name>>) :
            i \in 1..Len(ImportsOf(m))} \ {NULL}
    ELSE {}

RECURSIVE DepClosure(_, _)
DepClosure(S, n) ==
    IF n = 0 THEN S
    ELSE DepClosure(S \cup UNION {DirectDeps(x) : x \in S}, n - 1)

TransDeps(m) == DepClosure(DirectDeps(m), Len(modlist))

\* thread t is about to call an entry point with DLL_PROCESS_ATTACH
AtAttach(t) ==
    /\ At(t, "privload_call_entry", "call")
    /\ Top(t).reason = DLL_PROCESS_ATTACH

\* a dependency that has to have been attached: private, with an entry point
Attachable(d) == ~mods[d].externally_loaded /\ HasEntry(d)

(***************************************************************************)
(* C1.  Refcount round-trip.                                               *)
(***************************************************************************)
\* the last two public calls were load(L), for a library L that was not
\* resident, and unload(the base it returned)
C1_LoadThenUnload ==
    /\ JustReturned
    /\ Len(hist) >= 2
    /\ hist[Len(hist) - 1].op = "load"
    /\ hist[Len(hist) - 1].ok
    /\ ~hist[Len(hist) - 1].boot
    /\ NotResident(hist[Len(hist) - 1].pre, hist[Len(hist) - 1].path)
    /\ Last.op = "unload"
    /\ Last.base = hist[Len(hist) - 1].res

\* C1: load_private_library(L) of a library that is not resident, followed
\* by unload_private_library(returned base), leaves the registry (records,
\* order, ref_counts), the address-range index and the private mappings as
\* they were before the load.
C1_RoundTrip ==
    C1_LoadThenUnload => Snapshot = hist[Len(hist) - 1].pre

(***************************************************************************)
(* C2.  Idempotent re-load.                                                *)
(***************************************************************************)
\* calls k and k+1 are successful loads of the same library
C2_LoadedTwice(k) ==
    /\ k >= 1
    /\ hist[k].op = "load" /\ hist[k + 1].op = "load"
    /\ hist[k].path = hist[k + 1].path
    /\ hist[k].ok
    /\ ~hist[k].boot

\* C2: two load_private_library calls for the same library return the same
\* base and create no second mapping; a single unload_private_library(base)
\* after them leaves the module resident; only the second unload removes it
\* from the registry and unmaps it.
C2_IdempotentReload ==
    JustReturned =>
        /\ C2_LoadedTwice(Len(hist) - 1) =>
              /\ Last.res = hist[Len(hist) - 1].res
              /\ Snapshot.maps = Last.pre.maps
        /\ (/\ C2_LoadedTwice(Len(hist) - 2)
            /\ Last.op = "unload"
            /\ Last.base = hist[Len(hist) - 2].res) =>
              /\ InList(modlist, Last.base)
              /\ Last.base \in DOMAIN maps
        /\ (/\ C2_LoadedTwice(Len(hist) - 3)
            /\ hist[Len(hist) - 1].op = "unload"
            /\ hist[Len(hist) - 1].base = hist[Len(hist) - 3].res
            /\ Last.op = "unload"
            /\ Last.base = hist[Len(hist) - 3].res) =>
              /\ ~InList(modlist, Last.base)
              /\ Last.base \notin DOMAIN maps

(***************************************************************************)
(* C3.  Paired calls leave nothing behind.                                 *)
(***************************************************************************)
\* among the first n public calls: the successful loads that returned b, and
\* the unloads of b
LoadsOf(b, n) ==
    Cardinality({k \in 1..n : hist[k].op = "load" /\ hist[k].ok
                              /\ hist[k].res = b})

UnloadsOf(b, n) ==
    Cardinality({k \in 1..n : hist[k].op = "unload" /\ hist[k].base = b})

\* every successful load is matched by exactly one later unload of the base
\* it returned, and there is no other unload
Paired ==
    /\ \A b \in Addresses : LoadsOf(b, Len(hist)) = UnloadsOf(b, Len(hist))
    /\ \A n \in 1..Len(hist) :
          \A b \in Addresses : UnloadsOf(b, n) <= LoadsOf(b, n)

\* C3: after any sequence of load_private_library / unload_private_library
\* calls in which every successful load is matched by exactly one unload of
\* the base it returned, the registry holds no not-externally-loaded module
\* and no private image mapping remains.
C3_PairedCallsLeaveNothing ==
    (Idle /\ phase = "run" /\ Paired) =>
        /\ PrivatePositions = {}
        /\ DOMAIN maps = {}

(***************************************************************************)
(* C4.  in_private_library.                                                *)
(***************************************************************************)
\* p lies in [M.base, M.base + M.size) of a not-externally-loaded module M
\* of the registry
InPrivateModule(p) ==
    \E k \in PrivatePositions :
        /\ mods[modlist[k]].base <= p
        /\ p < mods[modlist[k]].base + mods[modlist[k]].size

\* C4: whenever no load or unload is in progress after loader_init,
\* in_private_library(p) is true if and only if p lies in the range of a
\* not-externally-loaded module of the registry (so it is false inside the
\* externally loaded modules and inside a module that has been unloaded).
C4_InPrivateLibrary ==
    (Idle /\ phase = "run") =>
        \A p \in Addresses : in_private_library(p) <=> InPrivateModule(p)

\* C4 witness: a private module is resident and answers true, an address
\* just below it answers false, and a module that was unloaded answers false
C4_Witness ==
    /\ Idle /\ phase = "run"
    /\ \E p \in Addresses \ {0} :
          in_private_library(p) /\ ~in_private_library(p - 1)
    /\ \E k \in 1..Len(hist) :
          /\ hist[k].op = "unload" /\ hist[k].ok
          /\ ~in_private_library(hist[k].base)
    /\ ~in_private_library(NtdllBase)

(***************************************************************************)
(* C5.  Registry order.                                                    *)
(***************************************************************************)
\* C5 as stated: in every reachable state every module of the registry
\* appears after its direct dependencies, index(D) < index(M).
C5_DependenciesFirst ==
    \A k \in 1..Len(modlist) :
        \A d \in DirectDeps(modlist[k]) : IndexOf(modlist, d) < k

\* C5 amended: in every reachable state a module that was loaded to satisfy
\* an import of M appears after M, as long as both are in the registry:
\* index(M) < index(D).
C5_DependentsFirst ==
    \A d \in DOMAIN loadinfo :
        (/\ loadinfo[d].dep # NULL
         /\ InList(modlist, d)
         /\ InList(modlist, loadinfo[d].dep)) =>
            IndexOf(modlist, loadinfo[d].dep) < IndexOf(modlist, d)

\* C5 witness: a library and, behind it, a dependency loaded for it, while
\* other modules loaded earlier are in the registry too
C5_Witness ==
    \E d \in DOMAIN loadinfo :
        /\ loadinfo[d].dep # NULL
        /\ InList(modlist, d)
        /\ InList(modlist, loadinfo[d].dep)
        /\ d \in DirectDeps(loadinfo[d].dep)
        /\ Cardinality(PrivatePositions) >= 3

(***************************************************************************)
(* C6.  IAT page protection.                                               *)
(***************************************************************************)
\* C6: when privload_process_imports returns, with success or with failure,
\* every IAT page it made writable has its original protection again.
C6_IatProtectionRestored ==
    \A t \in Threads :
        At(t, "privload_load_finalize", "imports") =>
            \A b \in DOMAIN maps :
                \A p \in DOMAIN maps[b].prot : maps[b].prot[p] = "R"

(***************************************************************************)
(* C7.  A failed bind leaves the resident modules alone.                   *)
(***************************************************************************)
\* C7: when a load fails while binding imports, every module that was in
\* the registry before the load_private_library call is still there, with
\* the same ref_count, when the call returns.
C7_FailedBindKeepsResidents ==
    (JustReturned /\ Last.op = "load" /\ ~Last.ok /\ Last.bindfail) =>
        \A k \in 1..Len(Last.pre.modlist) :
            /\ InList(modlist, Last.pre.modlist[k])
            /\ mods[Last.pre.modlist[k]].ref_count =
                  Last.pre.mods[Last.pre.modlist[k]].ref_count

(***************************************************************************)
(* C8.  Loads are atomic.                                                  *)
(***************************************************************************)
\* C8: whenever the load fails after the image was mapped,
\* load_private_library returns NULL and the partial module is not in the
\* registry, not in the address-range index, and not mapped any more.
C8_FailedLoadLeavesNothing ==
    (JustReturned /\ Last.op = "load" /\ ~Last.ok /\ Last.root # NULL) =>
        /\ Last.res = NULL
        /\ ~InList(modlist, Last.root)
        /\ ~in_private_library(Last.root)
        /\ Last.root \notin DOMAIN maps

(***************************************************************************)
(* C9.  Import by ordinal.                                                 *)
(***************************************************************************)
\* the library at path has an import slot with the ordinal flag set
ImportsByOrdinal(path) ==
    \E ij \in ThunkIds(FileImg(path[1], path[2])) :
        Images[FileImg(path[1], path[2])].imports[ij[1]].slots[ij[2]].ord

\* C9: a library with an import by ordinal is rejected: binding that slot
\* fails, the IAT slot is not written, and load_private_library returns
\* NULL for that library.
C9_OrdinalRejected ==
    /\ \A t \in Threads :
          (/\ At(t, "privload_process_imports", "bound")
           /\ ImportsOf(Top(t).mod)[Top(t).i].slots[Top(t).j].ord) =>
              /\ ~ret[t].b
              /\ maps[Top(t).mod].iat[<<Top(t).i, Top(t).j>>] = NoFunc
    /\ (JustReturned /\ Last.op = "load" /\ ImportsByOrdinal(Last.path)) =>
          ~Last.ok

(***************************************************************************)
(* C10.  PROCESS_ATTACH order.                                             *)
(***************************************************************************)
\* C10 as stated: no module receives PROCESS_ATTACH while one of its
\* transitive not-externally-loaded dependencies has not received it (with
\* success).
C10_AttachAfterAllDeps ==
    \A t \in Threads :
        AtAttach(t) =>
            \A d \in TransDeps(Top(t).mod) \ {Top(t).mod} :
                Attachable(d) => d \in attached

\* C10 amended: no module receives PROCESS_ATTACH while one of its
\* transitive not-externally-loaded dependencies whose own load is complete
\* has not received it (with success).  A dependency whose load is still in
\* progress (mutually dependent libraries), or failed, is not covered.
C10_AttachAfterLoadedDeps ==
    \A t \in Threads :
        AtAttach(t) =>
            \A d \in TransDeps(Top(t).mod) \ {Top(t).mod} :
                (Attachable(d) /\ loadinfo[d].st = "loaded") =>
                    d \in attached

\* C10 witness: a library is about to receive PROCESS_ATTACH; it has a
\* direct dependency with an entry point, and that one a dependency of its
\* own, and the first has received PROCESS_ATTACH already
C10_Witness ==
    \E t \in Threads :
        /\ AtAttach(t)
        /\ \E d \in DirectDeps(Top(t).mod) :
              /\ Attachable(d)
              /\ loadinfo[d].st = "loaded"
              /\ d \in attached
              /\ DirectDeps(d) # {}


(***************************************************************************)
(* C11.  PROCESS_DETACH runs dependents first.                             *)
(***************************************************************************)
\* the entry-point calls of public call n that pass reason
CallsOf(n, reason) ==
    {i \in 1..Len(hist[n].calls) : hist[n].calls[i].reason = reason}

\* call j of public call n went to a module that the module of call i
\* imports from
CallToDependency(n, i, j) ==
    /\ i # j
    /\ Lower(hist[n].calls[j].name) \in hist[n].calls[i].imports

\* C11: whenever one unload_private_library or loader_exit call detaches
\* both a module M and a module D that M imports from, the entry point of M
\* is called with PROCESS_DETACH before the entry point of D, and the image
\* of D is still mapped while the entry point of M runs.
C11_DetachDependentsFirst ==
    \A n \in 1..Len(hist) :
        hist[n].op \in {"unload", "exit"} =>
            \A i, j \in CallsOf(n, DLL_PROCESS_DETACH) :
                CallToDependency(n, i, j) =>
                    /\ i < j
                    /\ hist[n].calls[j].base \in hist[n].calls[i].mapped


(***************************************************************************)
(* C12.  THREAD_ATTACH / THREAD_DETACH order.                              *)
(***************************************************************************)
\* loader_thread_init or loader_thread_exit has just returned
ThreadCallReturned ==
    /\ JustReturned
    /\ Last.op \in {"thread_init", "thread_exit"}

ThreadReason ==
    IF Last.op = "thread_init" THEN DLL_THREAD_ATTACH ELSE DLL_THREAD_DETACH

\* the modules of the registry whose entry point a thread walk calls
ThreadCallees ==
    {m \in DOMAIN mods : InList(modlist, m) /\ Attachable(m)}

\* the position, in the last public call, of the entry-point call to m
CallIndex(m) ==
    CHOOSE i \in 1..Len(Last.calls) : Last.calls[i].base = m

\* the walk called the entry points of the private modules that have one,
\* each once, with the thread reason, and no other entry point
ThreadCallsExact ==
    /\ \A i \in 1..Len(Last.calls) :
          /\ Last.calls[i].reason = ThreadReason
          /\ Last.calls[i].base \in ThreadCallees
          /\ \A j \in 1..Len(Last.calls) :
                Last.calls[j].base = Last.calls[i].base => j = i
    /\ \A m \in ThreadCallees :
          \E i \in 1..Len(Last.calls) : Last.calls[i].base = m

\* C12: loader_thread_init and loader_thread_exit call the entry points of
\* the resident private modules that have one, and no others, and call the
\* entry point of every direct dependency D of a module M before that of M.
C12_ThreadDependenciesFirst ==
    ThreadCallReturned =>
        /\ ThreadCallsExact
        /\ \A m, d \in ThreadCallees :
              (d \in DirectDeps(m) /\ d # m) => CallIndex(d) < CallIndex(m)

\* C12 (amended): the walk is in registry order, dependents first: the
\* entry point of a module M is called before that of every module D that
\* was loaded to satisfy an import of M; externally loaded modules and
\* modules without an entry point are skipped.
C12_ThreadDependentsFirst ==
    ThreadCallReturned =>
        /\ ThreadCallsExact
        /\ \A m, d \in ThreadCallees :
              (d \in DOMAIN loadinfo /\ loadinfo[d].dep = m) =>
                  CallIndex(m) < CallIndex(d)

C12_Witness ==
    /\ ThreadCallReturned
    /\ Last.op = "thread_exit"
    /\ \E m, d \in ThreadCallees :
          /\ d \in DOMAIN loadinfo /\ loadinfo[d].dep = m
          /\ d \in DirectDeps(m)
    /\ \E x \in DOMAIN mods :
          InList(modlist, x) /\ ~mods[x].externally_loaded /\ ~HasEntry(x)


(***************************************************************************)
(* C13.  ref_count counts the holders.                                     *)
(***************************************************************************)
\* the import descriptors of resident modules that name the module m
ImportHolders(m) ==
    UNION {{<<r, i>> : i \in {n \in 1..Len(ImportsOf(r)) :
                privload_lookup(<<".", ImportsOf(r)[n].name>>) = m}} :
           r \in {x \in DOMAIN mods : InList(modlist, x)}}

\* the registration by loader_init, and the load_private_library calls
\* that returned m and were not matched by an unload
ExplicitHolders(m) ==
    (IF mods[m].externally_loaded THEN 1 ELSE 0)
    + (IF m \in DOMAIN loadinfo THEN loadinfo[m].held ELSE 0)

\* C13: while no public call is in progress, the ref_count of every module
\* of the registry is the number of its holders: the import descriptors of
\* resident modules that name it, plus the explicit loads (or the
\* loader_init registration) not yet matched by an unload.
C13_RefCountIsHolders ==
    Idle =>
        \A k \in 1..Len(modlist) :
            mods[modlist[k]].ref_count =
                Cardinality(ImportHolders(modlist[k]))
                + ExplicitHolders(modlist[k])


(***************************************************************************)
(* C14.  Externally loaded modules are left alone.                         *)
(***************************************************************************)
\* the addresses of the image the OS loaded at base b
OsRange(b) == b..(b + Images[OsImg(b)].size - 1)

\* a frame that detaches, unbinds, unmaps, or calls the entry point of the
\* module it works on
TearsDownOrCalls(f) ==
    \/ f.fn = "privload_call_entry"
    \/ f.fn = "privload_unload_imports"
    \/ f.fn = "privload_unload" /\ f.pc \in {"detached", "unimported"}

\* C14: a module that loader_init registered as externally loaded keeps
\* that mark, is never unmapped, never gets another mapping put over it,
\* is never added to the address-range index, and its entry point is never
\* called, whatever the reason code.
C14_ExternalUntouched ==
    /\ \A b \in OsBases \cap DOMAIN mods : mods[b].externally_loaded
    /\ \A t \in Threads : \A k \in 1..Len(stk[t]) :
          TearsDownOrCalls(stk[t][k]) => stk[t][k].mod \notin OsBases
    /\ \A n \in 1..Len(hist) : \A i \in 1..Len(hist[n].calls) :
          /\ ~hist[n].calls[i].ext
          /\ hist[n].calls[i].base \notin OsBases
    /\ \A b \in OsBases :
          /\ \A a \in modlist_areas :
                a.data # b /\ OsRange(b) \cap (a.start..(a.end - 1)) = {}
          /\ \A m \in DOMAIN maps :
                OsRange(b) \cap (m..(m + maps[m].size - 1)) = {}

\* loader_exit has emptied the registry after a thread walk that called
\* entry points: the records of the externally loaded modules are gone
C14_Witness ==
    /\ phase = "exited"
    /\ modlist = <<>>
    /\ \E n \in 1..Len(hist) :
          /\ hist[n].op = "thread_init"
          /\ hist[n].calls # <<>>
          /\ \E b \in OsBases : InList(hist[n].pre.modlist, b)


(***************************************************************************)
(* C15 - C19.  The Rtl*Heap redirections (specification SpecHeap).         *)
(***************************************************************************)
\* the last call was redirection fn on the process heap
OnProcess(fn) == hop.fn = fn /\ hop.heap = ProcessHeap

\* the pointer of the last call was handed out by the redirected
\* allocator and not freed since
PrivateBlock == (hop.ptr - SizeOfSizeT) \in DOMAIN hop.pre.hb

\* the last call left the host heap and the host's memory alone
HostHeapUntouched ==
    /\ hblocks = hop.pre.hb /\ hcell = hop.pre.hc
    /\ hop.allocs = <<>> /\ hop.frees = <<>> /\ hop.reads = {}

\* the last call did nothing but call its native routine, with the
\* arguments it was given
DelegatedUnchanged ==
    /\ hop.natives = <<[fn |-> hop.fn, heap |-> hop.heap,
                        flags |-> hop.flags, ptr |-> hop.ptr,
                        size |-> hop.size]>>
    /\ HostHeapUntouched

\* C15: redirect_RtlSizeHeap(PEB.ProcessHeap, _, p), for a pointer p that
\* redirect_RtlAllocateHeap returned for a request of n bytes, returns n.
C15_SizeIsRequested ==
    (OnProcess("RtlSizeHeap") /\ PrivateBlock) =>
        hop.res = hop.pre.hb[hop.ptr - SizeOfSizeT].req

\* C16: redirect_RtlAllocateHeap on the process heap takes the block from
\* the host heap (a non-null result is a host address) and does not call
\* the native RtlAllocateHeap; on any other heap it calls the native
\* RtlAllocateHeap with the same arguments, returns its result and leaves
\* the host heap alone.
C16_AllocateFromHostHeap ==
    hop.fn = "RtlAllocateHeap" =>
        IF hop.heap = ProcessHeap
        THEN /\ hop.natives = <<>>
             /\ nblocks = hop.pre.nb
             /\ hop.res # NULL =>
                   /\ hop.res \in DynamoRange
                   /\ (hop.res - SizeOfSizeT) \in
                         DOMAIN hblocks \ DOMAIN hop.pre.hb
                   /\ hblocks[hop.res - SizeOfSizeT].req = hop.size
        ELSE /\ DelegatedUnchanged
             /\ hop.res \in {NULL} \cup (DOMAIN nblocks \ DOMAIN hop.pre.nb)

C16_Witness ==
    /\ OnProcess("RtlAllocateHeap")
    /\ hop.res # NULL
    /\ \E a \in DOMAIN nblocks : nblocks[a].heap # ProcessHeap

\* C17: redirect_RtlFreeHeap, redirect_RtlReAllocateHeap and
\* redirect_RtlSizeHeap take a non-null pointer for a private one exactly
\* when the heap is the process heap and the pointer is a host address;
\* otherwise they call the native routine with the arguments unchanged,
\* read no size header and free nothing in the host heap.  Freeing a
\* pointer of the redirected allocator returns true and gives back exactly
\* the block (header and requested bytes) the allocation took.
C17_PointerOwnership ==
    (hop.fn \in {"RtlFreeHeap", "RtlReAllocateHeap", "RtlSizeHeap"}
       /\ hop.ptr # NULL) =>
        /\ IF hop.heap = ProcessHeap /\ hop.ptr \in DynamoRange
           THEN /\ hop.natives = <<>>
                /\ nblocks = hop.pre.nb
                /\ (hop.ptr - SizeOfSizeT) \in hop.reads
           ELSE DelegatedUnchanged
        /\ (OnProcess("RtlFreeHeap") /\ PrivateBlock) =>
              /\ hop.res = TRUE
              /\ hop.frees =
                    <<[addr |-> hop.ptr - SizeOfSizeT,
                       size |-> hop.pre.hb[hop.ptr - SizeOfSizeT].req
                                + SizeOfSizeT]>>
              /\ hblocks = Del(hop.pre.hb, hop.ptr - SizeOfSizeT)
              /\ ~crashed

C17_Witness ==
    /\ OnProcess("RtlFreeHeap") /\ PrivateBlock
    /\ hop.pre.hb[hop.ptr - SizeOfSizeT].req > 0
    /\ DOMAIN nblocks # {}

\* C18: on the process heap, redirect_RtlFreeHeap of NULL returns false
\* and redirect_RtlSizeHeap of NULL returns 0; neither calls the native
\* routine nor touches the host heap.
C18_NullIsRejected ==
    (hop.heap = ProcessHeap /\ hop.ptr = NULL) =>
        /\ hop.fn = "RtlFreeHeap" =>
              hop.res = FALSE /\ hop.natives = <<>> /\ HostHeapUntouched
        /\ hop.fn = "RtlSizeHeap" =>
              hop.res = 0 /\ hop.natives = <<>> /\ HostHeapUntouched

\* C19: redirect_RtlReAllocateHeap(PEB.ProcessHeap, flags, NULL, n) is a
\* fresh allocation: it returns a new block of n bytes of the host heap,
\* reads no size header, copies nothing and frees nothing.
C19_ReAllocNullIsFresh ==
    (OnProcess("RtlReAllocateHeap") /\ hop.ptr = NULL) =>
        /\ ~crashed
        /\ hop.reads = {} /\ hop.copied = 0
        /\ hop.frees = <<>> /\ hop.natives = <<>>
        /\ hop.res # NULL =>
              /\ (hop.res - SizeOfSizeT) \in
                    DOMAIN hblocks \ DOMAIN hop.pre.hb
              /\ hblocks[hop.res - SizeOfSizeT].req = hop.size


(***************************************************************************)
(* C20.  The loader lock (specification SpecMT).                           *)
(***************************************************************************)
\* thread t is inside a public operation of the loader, past the point
\* where the operation takes privload_lock
InsideLoader(t) ==
    /\ stk[t] # <<>>
    /\ ~(Len(stk[t]) = 1 /\ Top(t).pc = "lock")
    /\ ~(Len(stk[t]) = 1 /\ Top(t).fn = "loader_init"
                         /\ Top(t).pc = "start")

\* C20: with several threads calling the public API, every use of the
\* module registry (the list and the address-range index), every binding
\* step and every entry-point call is made by a thread that holds the
\* loader lock; this includes in_private_library and the redirected
\* GetModuleHandleA, GetProcAddress and FlsAlloc.
C20_RegistryUnderLock ==
    /\ \A t \in Threads : InsideLoader(t) => lock.owner = t
    /\ touch.fn # "" => touch.owner = touch.t


(***************************************************************************)
(* C21.  unload_private_library of an unknown base.                        *)
(***************************************************************************)
\* the last public call was unload_private_library of a base that no
\* record of the registry had when the call was made
UnknownBaseUnload ==
    /\ JustReturned /\ Last.op = "unload"
    /\ \A k \in 1..Len(Last.pre.modlist) :
          Last.pre.mods[Last.pre.modlist[k]].base # Last.base

\* C21: unload_private_library(base) with a base that is the base of no
\* module of the registry returns false, leaves the registry, every
\* ref_count, the address-range index and the mappings as they were, and
\* calls no entry point.
C21_UnknownBaseUnload ==
    UnknownBaseUnload =>
        /\ ~Last.ok
        /\ Snapshot = Last.pre
        /\ Last.calls = <<>>

\* C21 witness: an unload of an unknown base returned while a private
\* library was resident
C21_Witness ==
    /\ UnknownBaseUnload
    /\ PrivatePositions # {}


(***************************************************************************)
(* C22.  The value written into an IAT slot.                               *)
(***************************************************************************)
\* the redirection tables, by the lower-case short name of the module
TableOf(name) ==
    CASE Lower(name) = "ntdll.dll" -> RedirectNtdll
      [] Lower(name) = "kernel32.dll" -> RedirectKernel32
      [] OTHER -> {}

\* the value for symbol s of the resident module at base F: the forwarder
\* chain is followed (at most n steps) to the final module and symbol,
\* and the redirection table of the final module is consulted
RECURSIVE ChainValue(_, _, _)
ChainValue(F, s, n) ==
    LET e == ExportOf(F, s)
        G == privload_lookup(<<".", ForwModPath(e.fwd)>>)
    IN  IF e.kind = "func"
        THEN IF \E r \in TableOf(mods[F].name) : Lower(r) = Lower(s)
             THEN [b |-> NULL, img |-> "redirect",
                   sym |-> CHOOSE r \in TableOf(mods[F].name) :
                              Lower(r) = Lower(s)]
             ELSE [b |-> F, img |-> ImgAt(F).short, sym |-> s]
        ELSE IF e.kind = "fwd" /\ n > 0 /\ G # NULL
             THEN ChainValue(G, ForwFunc(e.fwd), n - 1)
             ELSE NoFunc

\* load_private_library has just returned a module that this call mapped
\* and whose load went through to the end
LoadReturnedLoaded ==
    /\ JustReturned /\ Last.op = "load" /\ Last.ok /\ ~Last.boot
    /\ Last.res = Last.root
    /\ Last.res \in DOMAIN maps
    /\ Last.res \in DOMAIN loadinfo
    /\ loadinfo[Last.res].st = "loaded"

\* the descriptor and thunk indices of the imports by name of module m
ByNameSlots(m) ==
    {ij \in ThunkIds(maps[m].img) :
        ~ImportsOf(m)[ij[1]].slots[ij[2]].ord}

\* the value the IAT slot ij of m holds, with the image named by its
\* short name
SlotValue(m, ij) ==
    LET v == maps[m].iat[ij]
    IN  IF v.img \in DOMAIN Images
        THEN [v EXCEPT !.img = Images[v.img].short] ELSE v

FlsStep(fn) == fop'.n = fop.n + 1 /\ fop'.fn = fn

\* cb is in a node behind the head node
Recorded(list, cb) == \E k \in 2..Len(list) : list[k] = cb

\* C23: private_lib_handle_cb(ctx, pc) returns true exactly when pc is a
\* recorded callback and the return address can be read; it then calls
\* the callback once, natively, with the argument it extracted (xcx on
\* 64-bit, the word above the return address on 32-bit), pops one word
\* (two on 32-bit) and sets next_tag to the return address.  Otherwise it
\* returns false, calls nothing and leaves the stack pointer and next_tag
\* alone; a pc of NULL, the head node's cb, never matches.  Calling the
\* callback is the event; what the callback does is not modelled.
C23_HandleCb ==
    [][FlsStep("handle_cb") =>
        LET f == fop'
            hit == Recorded(fls_cb_list, f.pc) /\ f.retok
        IN  /\ (f.res = "true") = hit
            /\ f.pc = NULL => f.res = "false"
            /\ hit =>
                  /\ Len(f.invoked) = 1
                  /\ f.invoked[1].cb = f.pc
                  /\ f.x64 => f.invoked[1].arg = Words.xcx
                  /\ ~f.x64 /\ f.argok => f.invoked[1].arg = Words.stackarg
                  /\ f.popped = (IF f.x64 THEN 1 ELSE 2)
                  /\ f.next_tag = Words.retaddr
            /\ ~hit =>
                  /\ f.invoked = <<>>
                  /\ f.popped = 0
                  /\ f.next_tag = Words.none]_vars

\* a recorded callback was called on 32-bit, and the list is as it was
C23_Witness ==
    /\ fop.fn = "handle_cb" /\ fop.res = "true"
    /\ ~fop.x64 /\ fop.popped = 2
    /\ Recorded(fls_cb_list, fop.pc)

\* p lies in an image the loader has mapped and not yet unmapped
InMappedLibrary(p) ==
    \E b \in DOMAIN maps : b <= p /\ p < b + maps[b].size

\* C24: redirect_FlsAlloc(cb) puts cb into a new node behind the head node
\* if and only if cb lies in a privately loaded library when it is called,
\* and then cb is a host address afterwards; in every case it calls the real
\* FlsAlloc once, with cb, and returns what that call returned.  It holds
\* of the calls made by the thread that loads and unloads (SpecFls); a call
\* made while another thread rewrites the address-range index (SpecMT) reads
\* the index without the lock and may record a cb outside every library, or
\* not record one inside.
C24_FlsAlloc ==
    [][FlsStep("FlsAlloc") =>
        LET f == fop'
        IN  /\ InMappedLibrary(f.pc) =>
                  /\ fls_cb_list'
                        = <<Head(fls_cb_list), f.pc>> \o Tail(fls_cb_list)
                  /\ f.pc \in dynamo_areas'
            /\ ~InMappedLibrary(f.pc) =>
                  /\ fls_cb_list' = fls_cb_list
                  /\ dynamo_areas' = dynamo_areas
            /\ Len(f.natives) = 1
            /\ f.natives[1].fn = "FlsAlloc" /\ f.natives[1].cb = f.pc
            /\ f.res = f.natives[1].res]_vars


\* the nodes of list, in their order, are the last nodes of later
KeptIn(list, later) ==
    /\ Len(list) <= Len(later)
    /\ SubSeq(later, Len(later) - Len(list) + 1, Len(later)) = list

\* C28: between loader_init and loader_exit the head node is there, and no
\* step takes a node out of the callback list: the nodes behind the head
\* node stay, in their order, whatever is called (private_lib_handle_cb,
\* redirect_FlsAlloc, an unload, also of the library the callback is in).
C28_InsertOnly ==
    [][(phase = "run" /\ phase' = "run") =>
        /\ fls_cb_list # <<>> /\ Head(fls_cb_list) = NULL
        /\ fls_cb_list' # <<>> /\ Head(fls_cb_list') = NULL
        /\ KeptIn(Tail(fls_cb_list), Tail(fls_cb_list'))]_vars

\* a callback was recorded, its library was unloaded, the callback was
\* called through private_lib_handle_cb, and it is still recorded
C28_Witness ==
    /\ phase = "run"
    /\ fop.fn = "handle_cb" /\ fop.res = "true"
    /\ Recorded(fls_cb_list, fop.pc)
    /\ ~InMappedLibrary(fop.pc)
    /\ \E k \in 1..Len(hist) :
          hist[k].op = "unload" /\ hist[k].ok /\ hist[k].base = fop.pc

(***************************************************************************)
(* Claim C25: mutually dependent libraries                                 *)
(***************************************************************************)
\* every import of image X is an import by name from image Y of a function
\* Y exports, and X's entry point does not fail
ImportsOnlyFrom(X, Y) ==
    /\ Images[X].imports # <<>>
    /\ \A i \in 1..Len(Images[X].imports) :
          /\ StrCaseEq(Images[X].imports[i].name, Images[Y].short)
          /\ \A j \in 1..Len(Images[X].imports[i].slots) :
                LET sl == Images[X].imports[i].slots[j]
                IN  /\ ~sl.ord
                    /\ sl.sym \in DOMAIN Images[Y].exports
                    /\ Images[Y].exports[sl.sym].kind = "func"
    /\ Images[X].entry # "fail"

\* X imports from Y and Y from X, all symbols resolve, no entry point fails
MutualPair(X, Y) == X # Y /\ ImportsOnlyFrom(X, Y) /\ ImportsOnlyFrom(Y, X)

\* the bases at which image img is mapped
MappedAt(img) == {b \in DOMAIN maps : maps[b].img = img}

\* the last call was load_private_library of a file that exists
LoadedFile ==
    /\ JustReturned /\ Last.op = "load" /\ ~Last.boot
    /\ FileExists(Last.path[1], Last.path[2])

\* the image of that file
LoadedImage == FileImg(Last.path[1], Last.path[2])

\* the images that form a mutual pair with it
MutualWith(X) == {Y \in DOMAIN Images : MutualPair(X, Y)}

\* neither X nor Y was resident or mapped before the last call
BothAbsent(X, Y) ==
    /\ \A k \in 1..Len(Last.pre.modlist) :
          LET n == Last.pre.mods[Last.pre.modlist[k]].name
          IN  ~StrCaseEq(n, Images[X].short) /\ ~StrCaseEq(n, Images[Y].short)
    /\ MappedAt(X) \cap DOMAIN Last.pre.maps = {}
    /\ MappedAt(Y) \cap DOMAIN Last.pre.maps = {}

\* on thread t the import processing of s begins while the import
\* processing of r, which made s be loaded, is under way
BeginsInside(t, r, s) ==
    /\ At(t, "privload_process_imports", "start")
    /\ Top(t).mod = s
    /\ \E k \in 1..(Len(stk[t]) - 1) :
          /\ stk[t][k].fn = "privload_process_imports"
          /\ stk[t][k].mod = r

\* C25: when X imports from Y and Y from X (all symbols resolve, the entry
\* points succeed) and neither is resident, load_private_library(X)
\* succeeds with each image mapped once and both in the registry, X held
\* twice (by the caller and by Y's import) and Y once; and when Y's import
\* processing begins inside X's, lookup already finds X's record, with its
\* base and name.
C25_MutualDependency ==
    /\ LoadedFile =>
          \A Y \in MutualWith(LoadedImage) :
              BothAbsent(LoadedImage, Y) =>
                  /\ Last.ok /\ Last.res # NULL
                  /\ MappedAt(LoadedImage) = {Last.res}
                  /\ \E y \in DOMAIN maps :
                        /\ MappedAt(Y) = {y}
                        /\ InList(modlist, Last.res) /\ InList(modlist, y)
                        /\ mods[Last.res].name = Images[LoadedImage].short
                        /\ mods[y].name = Images[Y].short
                        /\ mods[Last.res].ref_count = 2
                        /\ mods[y].ref_count = 1
    /\ \A t \in Threads, r \in DOMAIN maps, s \in DOMAIN maps :
          (BeginsInside(t, r, s) /\ MutualPair(maps[r].img, maps[s].img)) =>
              /\ privload_lookup(<<".", Images[maps[r].img].short>>) = r
              /\ mods[r].base = r
              /\ mods[r].name = Images[maps[r].img].short

\* both libraries of a mutual pair are resident after the load of one
C25_Witness ==
    /\ LoadedFile /\ Last.ok
    /\ \E Y \in MutualWith(LoadedImage) :
          /\ BothAbsent(LoadedImage, Y)
          /\ MappedAt(LoadedImage) # {} /\ MappedAt(Y) # {}

(***************************************************************************)
(* Claim C26: the registry order when nothing is being loaded              *)
(***************************************************************************)
\* the registry modules that the imports of m lead to in at most n steps
RECURSIVE DepsWithin(_, _)
DepsWithin(m, n) ==
    IF n = 0 THEN {}
    ELSE LET ds == {d \in DirectDeps(m) : d # NULL /\ InList(modlist, d)}
         IN  ds \cup UNION {DepsWithin(d, n - 1) : d \in ds}

\* no registry module imports, directly or through others, from itself
AcyclicImports ==
    \A k \in 1..Len(modlist) :
        modlist[k] \notin DepsWithin(modlist[k], Len(modlist))

\* C26: whenever no call of the loader is in progress and the imports of
\* the registry's modules form no cycle, every registry module that imports
\* from a registry module D is in front of D.
C26_DependentsInFront ==
    (Idle /\ phase = "run" /\ AcyclicImports) =>
        \A k \in 1..Len(modlist) :
            \A d \in DirectDeps(modlist[k]) :
                (d # NULL /\ InList(modlist, d)) => k < IndexOf(modlist, d)

(***************************************************************************)
(* Claim C27: the order of the search; checked under SpecLocate            *)
(***************************************************************************)
\* the positions of the directories searched that hold a file called name
Existing(name) ==
    {n \in 1..Len(SearchDirs) : FileExists(SearchDirs[n], name)}

\* the step returns from privload_locate_and_load on thread t
LocateReturns(t) ==
    /\ stk[t] # <<>> /\ Top(t).fn = "privload_locate_and_load"
    /\ Len(stk'[t]) = Len(stk[t]) - 1

\* the step calls privload_load from privload_locate_and_load on thread t
LocateLoads(t) ==
    /\ stk[t] # <<>> /\ Top(t).fn = "privload_locate_and_load"
    /\ Len(stk'[t]) = Len(stk[t]) + 1

\* C27 as stated: the directories searched are the client-library
\* directories in the order recorded, <systemroot>/system32 and
\* <systemroot>; privload_locate_and_load loads only from them, a module it
\* returns is the one loaded from the first of them that holds the file, and
\* it returns NULL when none holds it.
C27_FirstExisting ==
    [][\A t \in Threads :
        /\ LocateLoads(t) =>
              \E n \in Existing(Top(t).name) :
                  stk'[t][Len(stk'[t])].path = <<SearchDirs[n], Top(t).name>>
        /\ LocateReturns(t) =>
              LET f == Top(t)
                  ex == Existing(f.name)
              IN  /\ ex = {} => ret'[t].p = NULL
                  /\ ret'[t].p # NULL =>
                        /\ f.k \in ex /\ \A n \in ex : f.k <= n
                        /\ maps'[ret'[t].p].img
                              = FileImg(SearchDirs[f.k], f.name)]_vars

\* C27 amended: a module privload_locate_and_load returns is the one loaded
\* from the first directory, in that order, whose file loads: every
\* directory before it that holds the file has been tried and its file did
\* not load; NULL is returned when every file found has been tried and
\* none loaded.  Only the directories searched are tried.
C27_FirstLoadable ==
    [][\A t \in Threads :
        /\ LocateLoads(t) =>
              \E n \in Existing(Top(t).name) :
                  stk'[t][Len(stk'[t])].path = <<SearchDirs[n], Top(t).name>>
        /\ LocateReturns(t) =>
              LET f == Top(t)
                  ex == Existing(f.name)
              IN  /\ ret'[t].p = NULL => f.j = Cardinality(ex)
                  /\ ret'[t].p # NULL =>
                        /\ f.k \in ex
                        /\ f.j = Cardinality({n \in ex : n < f.k})
                        /\ maps'[ret'[t].p].img
                              = FileImg(SearchDirs[f.k], f.name)]_vars

\* privload_locate_and_load has returned a library whose file is in
\* <systemroot>, after the file of that name in <systemroot>/system32 did
\* not load; the client's c.dll, found in three directories, is resident
C27_Witness ==
    \E t \in Threads :
        /\ At(t, "privload_process_imports", "located")
        /\ ret[t].p \in DOMAIN maps
        /\ LET name == Images[maps[ret[t].p].img].short
           IN  \E n \in Existing(name), m \in Existing(name) :
                  /\ m < n
                  /\ FileImg(SearchDirs[m], name) # maps[ret[t].p].img
                  /\ FileImg(SearchDirs[n], name) = maps[ret[t].p].img
        /\ \E b \in DOMAIN maps :
              maps[b].img = "c" /\ Cardinality(Existing("c.dll")) = 3

(***************************************************************************)
(* Claim C29: the libraries loaded before the heap exists; checked under   *)
(* SpecEarly                                                               *)
(***************************************************************************)
\* the registry positions of the record with base b
PositionsOf(b) == {k \in 1..Len(modlist) : modlist[k] = b}

\* loader_init has returned and nothing has run since
InitReturned == Idle /\ hist # <<>> /\ Last.op = "init" /\ Last.done

\* the PROCESS_ATTACH calls the call h made to the module at base b
AttachCalls(h, b) ==
    {n \in 1..Len(h.calls) :
        h.calls[n].base = b /\ h.calls[n].reason = DLL_PROCESS_ATTACH}

\* C29: before the heap exists a load that maps its library takes the next
\* record of privmod_static, and none once the 6 records are taken; the
\* registry is empty, no import is bound and no entry point is called.
\* When loader_init has returned, each of these records is in the registry
\* once, in front of the externally loaded modules, its range is in the
\* address-range index, its imports are bound and its entry point, if it
\* has one, was called with PROCESS_ATTACH once.
C29_EarlyBoot ==
    /\ Len(privmod_static) <= PRIVMOD_STATIC_NUM
    /\ ~heap_init =>
          /\ modlist = <<>> /\ modlist_areas = {} /\ attached = {}
          /\ \A k \in 1..Len(hist) : hist[k].calls = <<>>
          /\ \A b \in DOMAIN maps :
                \A ij \in DOMAIN maps[b].iat : maps[b].iat[ij] = NoFunc
          /\ \A k \in 1..Len(hist) :
                (hist[k].done /\ hist[k].root # NULL) =>
                    IF k <= PRIVMOD_STATIC_NUM
                    THEN /\ hist[k].ok /\ hist[k].res = hist[k].root
                         /\ privmod_static[k].base = hist[k].root
                    ELSE ~hist[k].ok /\ hist[k].res = NULL
    /\ InitReturned =>
          \A i \in 1..Len(privmod_static) :
              LET b == privmod_static[i].base
              IN  /\ Cardinality(PositionsOf(b)) = 1
                  /\ \A k \in PositionsOf(b), e \in 1..Len(modlist) :
                        mods[modlist[e]].externally_loaded => k < e
                  /\ in_private_library(b)
                  /\ \A ij \in ByNameSlots(b) : maps[b].iat[ij] # NoFunc
                  /\ Cardinality(AttachCalls(Last, b))
                        = (IF HasEntry(b) THEN 1 ELSE 0)
                  /\ HasEntry(b) => b \in attached

\* loader_init has returned after seven loads: six records, all in the
\* registry, and the seventh library mapped without a record
C29_Witness ==
    /\ InitReturned
    /\ Len(privmod_static) = PRIVMOD_STATIC_NUM
    /\ \A i \in 1..Len(privmod_static) :
          PositionsOf(privmod_static[i].base) # {}
    /\ \E k \in 1..Len(hist) :
          /\ hist[k].op = "load" /\ hist[k].boot /\ hist[k].done
          /\ hist[k].root \in DOMAIN maps /\ ~hist[k].ok
    /\ attached # {}

(***************************************************************************)
(* Claim C30: loader_exit                                                  *)
(***************************************************************************)
\* loader_exit is under way
InLoaderExit ==
    \E t \in Threads : stk[t] # <<>> /\ stk[t][1].fn = "loader_exit"

\* the PROCESS_DETACH calls the call h made to the module at base b
DetachCalls(h, b) ==
    {n \in 1..Len(h.calls) :
        h.calls[n].base = b /\ h.calls[n].reason = DLL_PROCESS_DETACH}

\* C30: loader_exit does not stop half way, and when it has returned the
\* registry is empty, every image the loader had mapped is unmapped and,
\* if it has an entry point, got PROCESS_DETACH once, and no node of the
\* callback list is left, the head node included.
C30_LoaderExit ==
    /\ ~(crashed /\ InLoaderExit)
    /\ phase = "exited" =>
          /\ modlist = <<>>
          /\ fls_cb_list = <<>>
          /\ \A b \in DOMAIN Last.pre.maps :
                /\ b \notin DOMAIN maps
                /\ Images[Last.pre.maps[b]].entry # "none" =>
                      Cardinality(DetachCalls(Last, b)) = 1
(***************************************************************************)
(* Claim C31: PROCESS_DETACH only after a successful PROCESS_ATTACH        *)
(***************************************************************************)
\* the entry-point calls made so far, as <<call, index>> pairs
EntryCalls ==
    UNION {{<<n, i>> : i \in 1..Len(hist[n].calls)} : n \in 1..Len(hist)}

\* the entry point of the module was called with PROCESS_ATTACH before the
\* call <<n, i>>, after the module was mapped, and returned success
AttachedBefore(n, i) == hist[n].calls[i].att

\* C31: every PROCESS_DETACH call is made to a module whose entry point
\* was called with PROCESS_ATTACH before and returned success; a module
\* whose import binding failed, or whose PROCESS_ATTACH returned false, is
\* torn down without a PROCESS_DETACH call.
C31_DetachOnlyAttached ==
    \A c \in EntryCalls :
        hist[c[1]].calls[c[2]].reason = DLL_PROCESS_DETACH =>
            AttachedBefore(c[1], c[2])
(***************************************************************************)
(* Claim C32: no dangling import                                           *)
(***************************************************************************)
\* the IAT slots of the resident module at base r that are bound to an
\* address inside a privately loaded image
PrivateSlots(r) ==
    {ij \in DOMAIN maps[r].iat :
        maps[r].iat[ij].b # NULL /\ maps[r].iat[ij].b \notin OsBases}

\* the image the value v points into is still mapped where v points, and
\* its module is in the registry
StillThere(v) ==
    /\ v.b \in DOMAIN maps
    /\ maps[v.b].img = v.img
    /\ InList(modlist, v.b)

\* C32: whenever no public call is in progress, every IAT slot of a
\* resident module that is bound to an address inside a privately loaded
\* image points into a module that is still in the registry and still
\* mapped, a module reached through a forwarder chain included.
C32_NoDanglingImport ==
    Idle =>
        \A r \in DOMAIN maps :
            InList(modlist, r) =>
                \A ij \in PrivateSlots(r) : StillThere(maps[r].iat[ij])
(***************************************************************************)
(* Claim C33: the two locks                                                *)
(***************************************************************************)
\* thread u has asked for privload_fls_lock and does not have it yet
WantsFlsLock(u) ==
    \/ NAt(u, "redirect_FlsAlloc", "lock")
    \/ NAt(u, "private_lib_handle_cb", "lock")

\* thread u has asked for privload_lock and another thread holds it
WaitsForLoaderLock(u) ==
    /\ lock.owner \notin {0, u}
    /\ \/ NAt(u, "redirect_GetModuleHandleA", "lock")
       \/ IF u \in Threads
          THEN \E fn \in {"load_private_library", "unload_private_library",
                          "loader_thread", "loader_exit"} : At(u, fn, "lock")
          ELSE FALSE

\* the thread that holds privload_fls_lock asks for it again
SelfDeadlock == \E u \in LockThreads : WantsFlsLock(u) /\ privload_fls_lock = u

\* u holds privload_fls_lock and waits for privload_lock, whose holder
\* waits for privload_fls_lock
LockCycle ==
    \E u \in LockThreads, t \in LockThreads :
        /\ u # t
        /\ privload_fls_lock = u /\ WaitsForLoaderLock(u)
        /\ lock.owner = t /\ WantsFlsLock(t)

\* C33: privload_fls_lock is never requested by the thread that holds it,
\* and no thread holds it while waiting for privload_lock held by a thread
\* that waits for privload_fls_lock: no thread waits forever.
C33_NoDeadlock == ~SelfDeadlock /\ ~LockCycle

(***************************************************************************)
(* C34: every module in the registry has ref_count >= 1, and               *)
(* privload_unload is never entered with a record that was freed or whose  *)
(* ref_count is 0 (the assertion at the start of privload_unload).         *)
(***************************************************************************)
RegistryCounted ==
    \A k \in 1..Len(modlist) :
        /\ modlist[k] \in DOMAIN mods
        /\ mods[modlist[k]].ref_count >= 1

UnloadEntered(t) == At(t, "privload_unload", "start")

UnloadOfLive(t) ==
    /\ Top(t).mod > 0
    /\ Top(t).mod \in DOMAIN mods
    /\ mods[Top(t).mod].ref_count > 0

C34_UnloadOfLive ==
    /\ RegistryCounted
    /\ \A t \in Threads : UnloadEntered(t) => UnloadOfLive(t)


(***************************************************************************)
(* C35: unload_private_library(base) for a known base.                     *)
(***************************************************************************)
\* unload_private_library has just returned, and the base it was given was
\* the base of a module in the registry when it was called
UnloadOfKnownReturned ==
    /\ JustReturned
    /\ Last.op = "unload" /\ Last.done
    /\ InList(Last.pre.modlist, Last.base)

\* the count of the module before the call
CountBefore == Last.pre.mods[Last.base].ref_count

\* nothing was unmapped, nothing left the address-range index and the
\* registry is as it was
NothingRemoved ==
    /\ modlist = Last.pre.modlist
    /\ modlist_areas = Last.pre.areas
    /\ [b \in DOMAIN maps |-> maps[b].img] = Last.pre.maps

\* C35: unload_private_library(base) for a known base decrements the
\* module's ref_count by exactly one and returns true if and only if the
\* count reached zero and the module was removed from the registry during
\* the call; when other holders remain it returns false, the count is one
\* less, the module stays resident, mapped and in the address-range index,
\* and no entry point was called.
C35_UnloadKnownBase ==
    UnloadOfKnownReturned =>
        /\ Last.ok <=> (CountBefore - 1 = 0 /\ ~InList(modlist, Last.base))
        /\ ~Last.ok =>
              /\ InList(modlist, Last.base)
              /\ mods[Last.base].ref_count = CountBefore - 1
              /\ mods[Last.base].ref_count >= 1
              /\ NothingRemoved
              /\ Last.base \in DOMAIN maps
              /\ vmvector_overlap(modlist_areas, Last.base, Last.base + 1)
              /\ Last.calls = <<>>

\* an unload of a private module that left another holder
C35_Witness ==
    /\ UnloadOfKnownReturned
    /\ ~Last.ok
    /\ CountBefore = 2
    /\ mods[Last.base].ref_count = 1


(***************************************************************************)
(* C36: redirect_RtlReAllocateHeap of a private block.                     *)
(***************************************************************************)
\* the last redirection called was redirect_RtlReAllocateHeap on the
\* process heap, with a pointer redirect_RtlAllocateHeap had returned and
\* that was not freed since, and it returned a buffer
ReAllocOfPrivate ==
    /\ ~crashed
    /\ hop.fn = "RtlReAllocateHeap"
    /\ hop.heap = ProcessHeap
    /\ (hop.ptr - SizeOfSizeT) \in DOMAIN hop.pre.hb
    /\ hop.res # NULL

\* the size the old block was requested with
RequestedSize == hop.pre.hb[hop.ptr - SizeOfSizeT].req

\* C36: redirect_RtlReAllocateHeap on a private pointer p that was allocated
\* with requested size m, with new size n, returns a new private block whose
\* first min(m, n) units equal those of the old block before the call, copies
\* (and so reads from the old block) no more than m units, and frees the old
\* block exactly once.
C36_ReAllocCopiesUserBytes ==
    ReAllocOfPrivate =>
        /\ (hop.res - SizeOfSizeT) \in DOMAIN hblocks
        /\ hblocks[hop.res - SizeOfSizeT].req = hop.size
        /\ \A i \in 0..(MIN(RequestedSize, hop.size) - 1) :
              hcell[hop.res + i] = Cell(hop.pre, hop.ptr + i)
        /\ hop.copied <= RequestedSize
        /\ hop.frees = <<[addr |-> hop.ptr - SizeOfSizeT,
                          size |-> RequestedSize + SizeOfSizeT]>>

=============================================================================
